---- MODULE Spec2Model ----
(***************************************************************************)
(* Model of the per-session ObjectTracker (src/src/main.ts, lines 244-693) *)
(* and of the pre-filter pipeline it calls (src/src/util.ts).              *)
(*                                                                         *)
(* Conventions.                                                            *)
(*  - A JavaScript value that may be undefined is a sequence: <<>> is       *)
(*    undefined, <<v>> is the value v.  A missing boundingBox and a missing *)
(*    id are <<>> as well.                                                 *)
(*  - Scores and thresholds in [0,1] are held in hundredths (0.9 is 90).   *)
(*  - An IoU is the exact fraction [num, den]; den = 0 is JavaScript's NaN *)
(*    (0/0).  Every comparison is made by cross-multiplication.            *)
(*  - A Map is the sequence of its entries in insertion order.             *)
(*  - label, history and movement.firstSeen/lastSeen are copied through by *)
(*    the code and read by nothing the tracker decides; they are left out. *)
(***************************************************************************)
EXTENDS Integers, Sequences, FiniteSets, TLC

VARIABLES
    tracks,          \* this.tracks: Map<string, TrackedObject>
    lostTracks,      \* this.lostTracks
    lastActiveIds,   \* this.lastActiveIds: Set<string> (may hold undefined)
    nextTrackId,     \* this.nextTrackId
    lastDetectionId, \* this.lastDetectionId: undefined or a timestamp
    currentFrame,    \* this.currentFrame
    sessionId,       \* this.sessionId
    useMatrix,       \* this.useMatrix
    maxMisses,       \* this.maxMisses
    settings,        \* this.session.settings
    now,             \* the clock Date.now() reads
    result,          \* what the last call of update returned (or that it threw)
    obs,             \* history: what the last call of update did
    calls,           \* history: number of calls of update so far
    createdIds,      \* history: ids of the tracks created, in creation order
    everActive,      \* history: ids of the tracks that were Active after some call
    evictedTracks,   \* history: id, class and last box of the tracks cleanup removed
    input,           \* history: the arguments of the last call of update, where logged
    prefilter,       \* a detection list and what prefilterDetections made of it
    iouRun,          \* two boxes and what calculateIoU made of them
    sampler,         \* a BasicAudioDetectorMixin, its forwarders and its timers
    plugin,          \* the ObjectDetectionPlugin and a generateObjectDetections call
    analysis,        \* a runPipelineAnalysis call of an ObjectDetectionMixin
    mixin            \* an ObjectDetectionMixin and the analysis loops it started

vars == <<tracks, lostTracks, lastActiveIds, nextTrackId, lastDetectionId,
          currentFrame, sessionId, useMatrix, maxMisses, settings, now, result,
          obs, calls, createdIds, everActive, evictedTracks, input, prefilter,
          iouRun, sampler, plugin, analysis, mixin>>

\* What is outside the tracker session and prefilterDetections.
auxVars == <<iouRun, sampler, plugin, analysis, mixin>>

\* The tracker session and prefilterDetections, the clock apart.
sessionVars == <<tracks, lostTracks, lastActiveIds, nextTrackId, lastDetectionId,
                 currentFrame, sessionId, useMatrix, maxMisses, settings, result,
                 obs, calls, createdIds, everActive, evictedTracks, input,
                 prefilter>>

-----------------------------------------------------------------------------
(* Bounds of the model *)

\* Calls of update in one behaviour.
MaxCalls == 4

\* Detections in a list handed to prefilterDetections on its own.
MaxLen == 3

\* Applications of prefilterDetections to one list, each to the result of the
\* one before.
MaxPasses == 2

\* maxMisses is a constructor argument (default 5, main.ts:262); the model
\* constructs the tracker with MaxMissesArg, or with one more, so that losing
\* a track happens within MaxCalls.
MaxMissesArg == 1

\* maxLostFrames is 50 in the source (main.ts:275); the model scales the
\* eviction horizon down so that eviction happens within MaxCalls.  A track is
\* evicted once its lostFrames exceeds it, so with 2 a lost track lives through
\* one whole call.
maxLostFrames == 2

\* Gaps of more than the refresh period between calls in one behaviour.
MaxLongGaps == 1

\* Box coordinates and sizes handed to calculateIoU on its own: 0..MaxCoord.
MaxCoord == 2

\* startRtpForwarderProcess calls of one BasicAudioDetectorMixin.
MaxForwarders == 2

\* Firings of the hourly restart timer of one BasicAudioDetectorMixin.
MaxTicks == 1

\* onRtp calls of one BasicAudioDetectorMixin.
MaxPackets == 2

\* Analysis loops one ObjectDetectionMixin starts.
MaxLoops == 3

\* putMixinSetting calls of one ObjectDetectionMixin.
MaxChanges == 2

\* Motion events of the camera of one ObjectDetectionMixin.
MaxMotions == 3

\* Samples in the buffer of a BasicAudioDetectorMixin whose packets are not
\* counted.
MaxSamples == 2

\* Advances of the clock while a BasicAudioDetectorMixin lives (of AudioStepMs
\* each) or a runPipelineAnalysis call runs (of AnalysisStepMs each).
MaxSteps == 2

\* Frames the upstream detector yields to one generateObjectDetections call,
\* and results that call yields to one runPipelineAnalysis call.
MaxFrames == 3

(* Program constants *)

\* 5 * 1000 ms, the periodic refresh of the scene-change test.
RefreshMs == 5000

\* filterLargeDetections' default threshold 0.95, in hundredths.
LargeThreshold == 95

\* The radix of (nextTrackId++).toString(36).
Radix == 36

\* The score of a motion entry, 1, in hundredths.
MotionScore == 100

\* The defaults of the ObjectTracker the plugin constructs: minConfirmations,
\* maxMisses, movementThreshold, and iouMatchThreshold 0.3 in hundredths.
DefaultMinConfirmations == 3

DefaultMaxMisses == 5

DefaultMovementThreshold == 10

DefaultIouMatchThreshold == 30

\* The plugin's default minimum score 0.7, in hundredths.
DefaultMinScore == 70

\* The IoU threshold of filterOverlappedDetections without settings, 0.5, in
\* hundredths.
DefaultIouThreshold == 50

\* The analysis is taken for hung when its status is older than 30000 ms.
HungMs == 30000

\* storageSettings.updateSeconds, its default: the sampling window in seconds.
UpdateSeconds == 2

\* RTP_HEADER_SIZE of getDecibelsFromRtp_PCMU8.
RtpHeaderSize == 12

\* The dB value of a payload whose rms is 0: 20 * log10(0.00001).
SilenceDb == 0 - 100

-----------------------------------------------------------------------------
(* JavaScript values *)

Undefined == <<>>

Some(v) == <<v>>

\* !x for a number that may be undefined: undefined and 0 are falsy.
Falsy(o) == o = <<>> \/ o[1] = 0

\* x > o, false when o is undefined.
GeOpt_Strict(x, o) == o # <<>> /\ x > o[1]

\* x >= o, false when o is undefined.
GeOpt(x, o) == o # <<>> /\ x >= o[1]

\* x < o, false when o is undefined.
LtOpt(x, o) == o # <<>> /\ x < o[1]

Max(a, b) == IF a >= b THEN a ELSE b

Min(a, b) == IF a <= b THEN a ELSE b

Range(s) == {s[i] : i \in 1..Len(s)}

-----------------------------------------------------------------------------
(* Number.prototype.toString(36) and its inverse *)

Digit36 == <<"0","1","2","3","4","5","6","7","8","9","a","b","c","d","e","f",
             "g","h","i","j","k","l","m","n","o","p","q","r","s","t","u","v",
             "w","x","y","z">>

RECURSIVE ToString36(_)
ToString36(n) ==
    IF n < Radix THEN <<Digit36[n + 1]>>
    ELSE ToString36(n \div Radix) \o <<Digit36[(n % Radix) + 1]>>

DigitValue(c) == CHOOSE v \in 0..(Radix - 1) : Digit36[v + 1] = c

RECURSIVE ParseInt36(_)
ParseInt36(s) ==
    IF Len(s) = 0 THEN 0
    ELSE ParseInt36(SubSeq(s, 1, Len(s) - 1)) * Radix + DigitValue(s[Len(s)])

-----------------------------------------------------------------------------
(* Geometry *)

calculateIoU(box1, box2) ==
    LET x1 == Max(box1[1], box2[1])
        y1 == Max(box1[2], box2[2])
        x2 == Min(box1[1] + box1[3], box2[1] + box2[3])
        y2 == Min(box1[2] + box1[4], box2[2] + box2[4])
        intersectionArea == Max(0, x2 - x1) * Max(0, y2 - y1)
        box1Area == box1[3] * box1[4]
        box2Area == box2[3] * box2[4]
        unionArea == box1Area + box2Area - intersectionArea
    IN  [num |-> intersectionArea, den |-> unionArea]

\* iou > threshold, threshold in hundredths and possibly undefined; NaN > x is false.
IouGtThreshold(iou, thr) ==
    thr # <<>> /\ iou.den # 0 /\ iou.num * 100 > thr[1] * iou.den

\* iou <= threshold; false for NaN and for an undefined threshold.
IouLeThreshold(iou, thr) ==
    thr # <<>> /\ iou.den # 0 /\ iou.num * 100 <= thr[1] * iou.den

\* a > b of two IoUs; false when either is NaN.
IouGt(a, b) == a.den # 0 /\ b.den # 0 /\ a.num * b.den > b.num * a.den

\* getCentroid, doubled so that it stays an integer: [2x + w, 2y + h].
getCentroid2(bbox) == <<2 * bbox[1] + bbox[3], 2 * bbox[2] + bbox[4]>>

\* distance(c1, c2) >= threshold on doubled centroids:
\* sqrt(dx^2 + dy^2) >= t  iff  (2dx)^2 + (2dy)^2 >= (2t)^2.
MovedAtLeast(oldBox, newBox, thr) ==
    LET c1 == getCentroid2(oldBox)
        c2 == getCentroid2(newBox)
        d2 == (c1[1] - c2[1]) * (c1[1] - c2[1]) + (c1[2] - c2[2]) * (c1[2] - c2[2])
    IN  thr # <<>> /\ d2 >= 4 * thr[1] * thr[1]

-----------------------------------------------------------------------------
(* Settings *)

\* The key `${classname}-${parameter}` of session.settings.
getClassnameSettings(classname) ==
    [minScoreSetting              |-> <<classname, "minScore">>,
     minConfirmationFramesSetting |-> <<classname, "minConfirmationFrames">>,
     movementThresholdSetting     |-> <<classname, "movementThreshold">>,
     iouThresholdSetting          |-> <<classname, "iouThreshold">>]

\* settings[key]: undefined when the key is absent.
Setting(s, key) == IF key \in DOMAIN s.values THEN <<s.values[key]>> ELSE <<>>

-----------------------------------------------------------------------------
(* Pre-filter pipeline (util.ts) *)

\* filterLargeDetections reads det.boundingBox by destructuring: a detection
\* without a boundingBox makes it throw a TypeError.
PrefilterThrows(detections) ==
    \E i \in 1..Len(detections) : detections[i].boundingBox = <<>>

LargeKeep(inputDimensions, det) ==
    LET imageArea == inputDimensions[1] * inputDimensions[2]
        boxArea == det.boundingBox[3] * det.boundingBox[4]
    IN  boxArea * 100 < LargeThreshold * imageArea

\* No detection is dropped for its size.
filterLargeDetections_KeepAll(detections, inputDimensions) == detections

filterLargeDetections(detections, inputDimensions) ==
    SelectSeq(detections, LAMBDA det : LargeKeep(inputDimensions, det))

SettingsKeep(s, det) ==
    LET scoreThreshold == Setting(s, getClassnameSettings(det.className).minScoreSetting)
    IN  /\ det.className \in s.enabledClasses
        /\ (Falsy(scoreThreshold) \/ ~ LtOpt(det.score, scoreThreshold))

filterBySettings(detections, s) ==
    SelectSeq(detections, LAMBDA det : SettingsKeep(s, det))

\* A sort that puts a detection before those of equal score that precede it.
RECURSIVE InsertByScore_TiesReversed(_, _)
InsertByScore_TiesReversed(sorted, det) ==
    IF sorted = <<>> THEN <<det>>
    ELSE IF sorted[Len(sorted)].score > det.score THEN Append(sorted, det)
    ELSE Append(InsertByScore_TiesReversed(SubSeq(sorted, 1, Len(sorted) - 1), det),
                sorted[Len(sorted)])

\* [...detections].sort((a, b) => b.score - a.score): stable, descending.
RECURSIVE InsertByScore(_, _)
InsertByScore(sorted, det) ==
    IF sorted = <<>> THEN <<det>>
    ELSE IF sorted[Len(sorted)].score >= det.score THEN Append(sorted, det)
    ELSE Append(InsertByScore(SubSeq(sorted, 1, Len(sorted) - 1), det),
                sorted[Len(sorted)])

RECURSIVE SortByScoreDesc(_)
SortByScoreDesc(detections) ==
    IF detections = <<>> THEN <<>>
    ELSE InsertByScore(SortByScoreDesc(SubSeq(detections, 1, Len(detections) - 1)),
                       detections[Len(detections)])

NmsKeep(s, currentDetection, detection) ==
    \/ detection.className # currentDetection.className
    \/ IouLeThreshold(
           calculateIoU(currentDetection.boundingBox, detection.boundingBox),
           Setting(s, getClassnameSettings(currentDetection.className).iouThresholdSetting))

RECURSIVE NmsLoop(_, _)
NmsLoop(s, sortedDetections) ==
    IF sortedDetections = <<>> THEN <<>>
    ELSE LET currentDetection == Head(sortedDetections)
         IN  <<currentDetection>> \o
             NmsLoop(s, SelectSeq(Tail(sortedDetections),
                                  LAMBDA d : NmsKeep(s, currentDetection, d)))

filterOverlappedDetections(detections, s) ==
    NmsLoop(s, SortByScoreDesc(detections))

prefilterDetections(detections, inputDimensions, s) ==
    filterOverlappedDetections(
        filterBySettings(filterLargeDetections(detections, inputDimensions), s), s)

-----------------------------------------------------------------------------
(* Maps in insertion order *)

MapKeys(m) == {m[i].id : i \in 1..Len(m)}

MapHas(m, id) == \E i \in 1..Len(m) : m[i].id = id

MapGet(m, id) == m[CHOOSE i \in 1..Len(m) : m[i].id = id]

\* Map.set: an existing key keeps its place, a new key goes last.
MapSet(m, track) ==
    IF MapHas(m, track.id)
    THEN [i \in 1..Len(m) |-> IF m[i].id = track.id THEN track ELSE m[i]]
    ELSE Append(m, track)

MapDelete(m, id) == SelectSeq(m, LAMBDA t : t.id # id)

-----------------------------------------------------------------------------
(* Association: greedy IoU *)

\* The loop of matchWithActiveTracks from entry i on, carrying bestMatch and bestIOU.
RECURSIVE ActiveMatchFrom(_, _, _, _, _, _)
ActiveMatchFrom(trs, s, det, i, bestMatch, bestIOU) ==
    IF i > Len(trs) THEN bestMatch
    ELSE LET track == trs[i]
             iou == calculateIoU(det.boundingBox, track.boundingBox)
             iouThreshold ==
                 Setting(s, getClassnameSettings(track.className).iouThresholdSetting)
         IN  IF /\ track.className = det.className
                /\ IouGtThreshold(iou, iouThreshold)
                /\ IouGt(iou, bestIOU)
             THEN ActiveMatchFrom(trs, s, det, i + 1, Some(track.id), iou)
             ELSE ActiveMatchFrom(trs, s, det, i + 1, bestMatch, bestIOU)

\* The last track that qualifies, whatever its IoU.
matchWithActiveTracks_LastQualifying(trs, s, det) ==
    LET q == {i \in 1..Len(trs) :
                 /\ trs[i].className = det.className
                 /\ IouGtThreshold(
                        calculateIoU(det.boundingBox, trs[i].boundingBox),
                        Setting(s, getClassnameSettings(trs[i].className).iouThresholdSetting))}
    IN  IF q = {} THEN Undefined
        ELSE Some(trs[CHOOSE i \in q : \A k \in q : k <= i].id)

matchWithActiveTracks(trs, s, det) ==
    ActiveMatchFrom(trs, s, det, 1, Undefined, [num |-> 0, den |-> 1])

\* The loop of matchWithLostTracks; bestIOU starts as the class threshold
\* (undefined, or a number of hundredths) and becomes the best IoU found.
RECURSIVE LostMatchFrom(_, _, _, _, _)
LostMatchFrom(lost, det, i, bestMatchId, bestIOU) ==
    IF i > Len(lost) THEN bestMatchId
    ELSE LET track == lost[i]
             iou == calculateIoU(det.boundingBox, track.boundingBox)
         IN  IF /\ track.className = det.className
                /\ bestIOU # <<>>
                /\ IouGt(iou, bestIOU[1])
             THEN LostMatchFrom(lost, det, i + 1, Some(track.id), Some(iou))
             ELSE LostMatchFrom(lost, det, i + 1, bestMatchId, bestIOU)

\* No lost track is ever found.
matchWithLostTracks_Never(lost, s, det) == Undefined

matchWithLostTracks(lost, s, det) ==
    LET iouThreshold ==
            Setting(s, getClassnameSettings(det.className).iouThresholdSetting)
        start == IF iouThreshold = <<>> THEN <<>>
                 ELSE Some([num |-> iouThreshold[1], den |-> 100])
    IN  LostMatchFrom(lost, det, 1, Undefined, start)

\* if (matchId && !assignedTracks.has(matchId))
CanAssign(matchId, assignedTracks) ==
    matchId # <<>> /\ matchId[1] \notin assignedTracks

\* The writes without the one of movement.moving.
Associated_MovingKept(track, det, s, activeNow) ==
    [track EXCEPT
        !.boundingBox = det.boundingBox,
        !.className = det.className,
        !.score = det.score,
        !.hits = track.hits + 1,
        !.misses = 0,
        !.active = activeNow]

\* The fields every association writes (main.ts 464-472, 498-507, 385-393);
\* activeNow is the value the caller computes for track.active.
Associated(track, det, s, activeNow) ==
    LET movementThreshold ==
            Setting(s, getClassnameSettings(det.className).movementThresholdSetting)
    IN  [track EXCEPT
            !.boundingBox = det.boundingBox,
            !.className = det.className,
            !.score = det.score,
            !.hits = track.hits + 1,
            !.misses = 0,
            !.active = activeNow,
            !.moving = MovedAtLeast(track.boundingBox, det.boundingBox, movementThreshold)]

\* track.active = track.active || track.hits >= minConfirmations   (after hits++)
ActiveAfterMatch(track, minConfirmations) ==
    track.active \/ GeOpt(track.hits + 1, minConfirmations)

\* track.active = track.hits >= minConfirmations   (after hits++), on revival
ActiveAfterRevival(track, minConfirmations) ==
    GeOpt(track.hits + 1, minConfirmations)

\* if (!track.active && (track.hits >= minConfirmations || !minConfirmations)),
\* evaluated on the track as already written.
ConfirmsNow(track, minConfirmations) ==
    /\ ~ track.active
    /\ (GeOpt(track.hits, minConfirmations) \/ Falsy(minConfirmations))

\* The test at main.ts 474-478 and 509-513 on the track as written; a track it
\* confirms is marked newlyConfirmed.
ConfirmIf(written, minConfirmations) ==
    [track |-> [written EXCEPT !.active = @ \/ ConfirmsNow(written, minConfirmations)],
     newlyConfirmed |-> ConfirmsNow(written, minConfirmations)]

\* this.nextTrackId++ : the value left in the counter.
NextIdAfter_NoIncrement(n) == n

NextIdAfter(n) == n + 1

NewTrack(newId, det, activeNow) ==
    [id |-> newId, boundingBox |-> det.boundingBox, className |-> det.className,
     score |-> det.score, hits |-> 1, misses |-> 0, lostFrames |-> 0,
     active |-> activeNow, moving |-> FALSE]

\* this.tracks.set(track.id, track); this.lostTracks.delete(track.id)
MoveToTracks_NoDelete(st, track) ==
    [st EXCEPT !.tracks = MapSet(st.tracks, track)]

MoveToTracks(st, track) ==
    [st EXCEPT !.tracks = MapSet(st.tracks, track),
               !.lostTracks = MapDelete(st.lostTracks, track.id)]

Event(i, id, kind) == [det |-> i, id |-> id, kind |-> kind]

\* The bookkeeping after an association of kind "update" or "revive": the
\* track goes (back) to this.tracks, its id to assignedTracks and
\* updatedTrackIds, and to newlyConfirmedIds if w confirmed it.
Record(st, i, kind, w) ==
    [(IF kind = "revive" THEN MoveToTracks(st, w.track)
      ELSE [st EXCEPT !.tracks = MapSet(st.tracks, w.track)])
        EXCEPT
        !.newlyConfirmedIds = IF w.newlyConfirmed THEN @ \cup {w.track.id} ELSE @,
        !.assignedTracks = @ \cup {w.track.id},
        !.updatedTrackIds = @ \cup {w.track.id},
        !.events = Append(@, Event(i, w.track.id, kind))]

\* The state a processWith... call starts from.
ProcessStart(trs, lost, next) ==
    [tracks |-> trs, lostTracks |-> lost, nextTrackId |-> next,
     assignedTracks |-> {}, updatedTrackIds |-> {}, newlyConfirmedIds |-> {},
     events |-> <<>>]

\* The new value of a track that detection det is associated with: the
\* writes of main.ts 464-478 (activeNow as at line 470) and 498-513 (as at
\* line 504), then the test that confirms it.
WriteAssociation(track, det, s, activeNow, minConfirmations) ==
    ConfirmIf(Associated(track, det, s, activeNow), minConfirmations)

\* main.ts 451-483: det updates the track matchId of this.tracks.
IOUMatched(st, s, det, i, track, minConfirmations) ==
    Record(st, i, "update",
           WriteAssociation(track, det, s, ActiveAfterMatch(track, minConfirmations),
                            minConfirmations))

\* A revival that leaves lostFrames as it was.
IOURevived_LostFramesKept(st, s, det, i, track, minConfirmations) ==
    Record(st, i, "revive",
           WriteAssociation(track, det, s,
                            ActiveAfterRevival(track, minConfirmations),
                            minConfirmations))

\* main.ts 487-521: det revives the track lostMatchId of this.lostTracks.
IOURevived(st, s, det, i, track, minConfirmations) ==
    Record(st, i, "revive",
           WriteAssociation([track EXCEPT !.lostFrames = 0], det, s,
                            ActiveAfterRevival(track, minConfirmations),
                            minConfirmations))

\* main.ts 523-554: det starts a new track.
IOUCreated(st, det, i, newId, instant) ==
    [st EXCEPT
        !.nextTrackId = NextIdAfter(st.nextTrackId),
        !.tracks = MapSet(st.tracks, NewTrack(newId, det, instant)),
        !.assignedTracks = IF instant THEN @ \cup {newId} ELSE @,
        !.newlyConfirmedIds = IF instant THEN @ \cup {newId} ELSE @,
        !.updatedTrackIds = @ \cup {newId},
        !.events = Append(@, Event(i, newId, "create"))]

IOUUnmatched(st, s, det, i, lostMatchId, minConfirmations) ==
    IF CanAssign(lostMatchId, st.assignedTracks)
    THEN IOURevived(st, s, det, i, MapGet(st.lostTracks, lostMatchId[1]),
                    minConfirmations)
    ELSE IOUCreated(st, det, i, ToString36(st.nextTrackId),
                    Falsy(minConfirmations) \/ minConfirmations[1] <= 1)

IOUDecide(st, s, det, i, matchId, minConfirmations) ==
    IF CanAssign(matchId, st.assignedTracks)
    THEN IOUMatched(st, s, det, i, MapGet(st.tracks, matchId[1]), minConfirmations)
    ELSE IOUUnmatched(st, s, det, i, matchWithLostTracks(st.lostTracks, s, det),
                      minConfirmations)

\* One iteration of processWithIOU's loop, for detections[i] = det.
IOUStep(st, s, det, i) ==
    IOUDecide(st, s, det, i, matchWithActiveTracks(st.tracks, s, det),
              Setting(s, getClassnameSettings(det.className).minConfirmationFramesSetting))

RECURSIVE IOULoop(_, _, _, _)
IOULoop(st, s, detections, i) ==
    IF i > Len(detections) THEN st
    ELSE IOULoop(IOUStep(st, s, detections[i], i), s, detections, i + 1)

processWithIOU(trs, lost, next, s, detections) ==
    IOULoop(ProcessStart(trs, lost, next), s, detections, 1)

-----------------------------------------------------------------------------
(* Association: cost matrix and Munkres *)

\* costMatrix[i][j] = 1 - iou(detections[i], tracks[j]), as the fraction
\* (den - num) / den held to five decimal places.
Cost(det, track) ==
    LET iou == calculateIoU(det.boundingBox, track.boundingBox)
    IN  100000 - ((iou.num * 100000) \div iou.den)

\* Pairings that give every row a column, a column possibly to several rows.
Assignments_ColumnsShared(n, m) ==
    {{<<i, f[i]>> : i \in 1..n} : f \in [1..n -> 1..m]}

\* The complete assignments of an n x m matrix: every row is paired when
\* n <= m, every column when m <= n, no row or column twice.
Assignments(n, m) ==
    IF n <= m
    THEN {{<<i, f[i]>> : i \in 1..n} :
             f \in {g \in [1..n -> 1..m] : \A a, b \in 1..n : a # b => g[a] # g[b]}}
    ELSE {{<<f[j], j>> : j \in 1..m} :
             f \in {g \in [1..m -> 1..n] : \A a, b \in 1..m : a # b => g[a] # g[b]}}

RECURSIVE SumCost(_, _, _)
SumCost(detections, trs, pairs) ==
    IF pairs = {} THEN 0
    ELSE LET p == CHOOSE q \in pairs : TRUE
         IN  Cost(detections[p[1]], trs[p[2]]) + SumCost(detections, trs, pairs \ {p})

\* new Munkres().compute(costMatrix) of the library munkres-js: an assignment
\* of minimum total cost; which one among equals is the library's choice.
MunkresCompute(detections, trs) ==
    IF Len(detections) = 0 \/ Len(trs) = 0 THEN {{}}
    ELSE LET all == Assignments(Len(detections), Len(trs))
         IN  {a \in all : \A b \in all :
                 SumCost(detections, trs, a) <= SumCost(detections, trs, b)}

\* if (cost > (1 - iouThreshold)) continue;   1 - undefined is NaN, and
\* cost > NaN is false.  cost is costMatrix[detIdx][trackIdx], computed from
\* the track as it was when processWithMatrix started.
MatrixSkips(det, track, iouThreshold) ==
    LET iou == calculateIoU(det.boundingBox, track.boundingBox)
    IN  iouThreshold # <<>> /\ iou.den # 0 /\ iou.num * 100 < iouThreshold[1] * iou.den

\* if (!track.active && track.hits >= minConfirmations)   (main.ts 395-399)
MatrixConfirmIf(written, minConfirmations) ==
    [track |-> [written EXCEPT
                   !.active = @ \/ GeOpt(written.hits, minConfirmations)],
     newlyConfirmed |-> ~ written.active /\ GeOpt(written.hits, minConfirmations)]

MatrixMatched(st, s, det, detIdx, track, minConfirmations) ==
    Record(st, detIdx, "update",
           MatrixConfirmIf(
               Associated(track, det, s, ActiveAfterMatch(track, minConfirmations)),
               minConfirmations))

\* The first loop of processWithMatrix (main.ts 368-403) for the pair
\* [detIdx, trackIdx]; entry is activeTrackEntries[trackIdx] as it was when
\* the cost matrix was built, track the same object as it is now.
MatrixAssign(st, s, det, detIdx, entry, track) ==
    IF MatrixSkips(det, entry,
                   Setting(s, getClassnameSettings(det.className).iouThresholdSetting))
    THEN st
    ELSE MatrixMatched(st, s, det, detIdx, track,
             Setting(s, getClassnameSettings(det.className).minConfirmationFramesSetting))

RECURSIVE MatrixAssignLoop(_, _, _, _, _, _)
MatrixAssignLoop(st, s, detections, entries, assignments, i) ==
    IF i > Len(detections) THEN st
    ELSE LET mine == {p \in assignments : p[1] = i}
         IN  IF mine = {}
             THEN MatrixAssignLoop(st, s, detections, entries, assignments, i + 1)
             ELSE MatrixAssignLoop(
                      MatrixAssign(st, s, detections[i], i,
                                   entries[(CHOOSE p \in mine : TRUE)[2]],
                                   MapGet(st.tracks,
                                          entries[(CHOOSE p \in mine : TRUE)[2]].id)),
                      s, detections, entries, assignments, i + 1)

\* The second loop (main.ts 405-429): a detection no pair of assignments names
\* becomes a new track.
MatrixCreate(st, det, i) ==
    LET newId == ToString36(st.nextTrackId)
    IN  [st EXCEPT
            !.nextTrackId = NextIdAfter(st.nextTrackId),
            !.tracks = MapSet(st.tracks, NewTrack(newId, det, FALSE)),
            !.updatedTrackIds = @ \cup {newId},
            !.events = Append(@, Event(i, newId, "create"))]

RECURSIVE MatrixCreateLoop(_, _, _, _)
MatrixCreateLoop(st, detections, assignments, i) ==
    IF i > Len(detections) THEN st
    ELSE LET wasAssigned == \E p \in assignments : p[1] = i
         IN  MatrixCreateLoop(
                 IF wasAssigned THEN st ELSE MatrixCreate(st, detections[i], i),
                 detections, assignments, i + 1)

processWithMatrix(trs, lost, next, s, detections, assignments) ==
    MatrixCreateLoop(
        MatrixAssignLoop(ProcessStart(trs, lost, next), s, detections, trs,
                         assignments, 1),
        detections, assignments, 1)

-----------------------------------------------------------------------------
(* update: lifecycle, result, scene change *)

\* "Check not updated tracks" (main.ts 641-653), from entry i of the tracks
\* the association left; acc carries tracks and lostTracks.
RECURSIVE MissLoop(_, _, _, _)
MissLoop(acc, entries, updatedTrackIds, i) ==
    IF i > Len(entries) THEN acc
    ELSE LET track == entries[i]
             missed == [track EXCEPT !.misses = track.misses + 1]
         IN  IF track.id \in updatedTrackIds
             THEN MissLoop(acc, entries, updatedTrackIds, i + 1)
             ELSE IF missed.misses >= maxMisses
             THEN MissLoop(
                      [tracks |-> MapDelete(acc.tracks, track.id),
                       lostTracks |-> MapSet(acc.lostTracks,
                                             [missed EXCEPT !.lostFrames = 0])],
                      entries, updatedTrackIds, i + 1)
             ELSE MissLoop(
                      [acc EXCEPT !.tracks = MapSet(acc.tracks,
                                                    [missed EXCEPT !.moving = FALSE])],
                      entries, updatedTrackIds, i + 1)

\* Id, class and box of the entries that "Cleanup old lost tracks" deletes.
EvictedFrom(lost) ==
    {[id |-> lost[i].id, className |-> lost[i].className,
      boundingBox |-> lost[i].boundingBox] :
        i \in {j \in 1..Len(lost) : lost[j].lostFrames + 1 > maxLostFrames}}

\* "Cleanup old lost tracks" (main.ts 655-662).
CleanupLost(lost) ==
    SelectSeq([i \in 1..Len(lost) |-> [lost[i] EXCEPT !.lostFrames = @ + 1]],
              LAMBDA t : ~ (t.lostFrames > maxLostFrames))

MotionEntry(box) ==
    [className |-> "motion", score |-> MotionScore, boundingBox |-> box,
     id |-> Undefined, movement |-> Undefined]

\* Motion entries for the detections only, none for an empty list.
addMotionEntries_NoSentinel(detections) ==
    [i \in 1..Len(detections) |-> MotionEntry(detections[i].boundingBox)]

addMotionEntries(detections) ==
    IF Len(detections) = 0 THEN <<MotionEntry(Undefined)>>
    ELSE [i \in 1..Len(detections) |-> MotionEntry(detections[i].boundingBox)]

TrackEntry(track) ==
    [className |-> track.className, score |-> track.score,
     boundingBox |-> track.boundingBox, id |-> Some(track.id),
     movement |-> Some(track.moving)]

buildActiveTracks(trs) ==
    LET active == SelectSeq(trs, LAMBDA t : t.active)
        pending == SelectSeq(trs, LAMBDA t : ~ t.active)
        activeOut == [i \in 1..Len(active) |-> TrackEntry(active[i])]
    IN  [active |-> activeOut \o addMotionEntries(activeOut),
         pending |-> [i \in 1..Len(pending) |-> TrackEntry(pending[i])]]

\* new Set(active.map(t => t.id)): active holds the motion entries too.
CurrentActiveIds(active) == {active[i].id : i \in 1..Len(active)}

sceneChanged_NoDisappearance(newlyConfirmedIds, lastIds, currentIds, active, last, t) ==
    \/ newlyConfirmedIds # {}
    \/ (lastIds = {} /\ currentIds # {})
    \/ (Len(active) # 0 /\ (Falsy(last) \/ t - last[1] > RefreshMs))

sceneChanged(newlyConfirmedIds, lastIds, currentIds, active, last, t) ==
    \/ newlyConfirmedIds # {}
    \/ (lastIds = {} /\ currentIds # {})
    \/ (\E id \in lastIds : id \notin currentIds)
    \/ (Len(active) # 0 /\ (Falsy(last) \/ t - last[1] > RefreshMs))

\* `${this.sessionId}-${this.currentFrame}`
getNewDetectionId(sid, frame) == Some(<<sid, frame>>)

-----------------------------------------------------------------------------
(* Inputs *)

Detection(className, score, boundingBox) ==
    [className |-> className, score |-> score, boundingBox |-> boundingBox,
     id |-> Undefined, movement |-> Undefined]

BoxA == <<10, 10, 50, 50>>

\* IoU with BoxA 2304/2696: a duplicate of the object at BoxA.
BoxNear == <<12, 12, 50, 50>>

\* BoxLeft and BoxRight each overlap BoxA with IoU 2/3, and each other with 3/7.
BoxLeft == <<0, 10, 50, 50>>

BoxRight == <<20, 10, 50, 50>>

\* 0.9604 of a 1000 x 1000 image.
BoxHuge == <<0, 0, 980, 980>>

InputDimensions == <<1000, 1000>>

Person(box) == Detection("person", 90, box)

\* The frames of a session: no detection, one object, two objects that do not
\* suppress each other, a detection without a box, a motion detection.  A
\* frame whose detections the pre-filter drops (a duplicate, a low score, an
\* oversize box) leaves update what one of these leaves it; PrefilterDetections
\* and SceneFrames hold such detections.
Frames ==
    {[detections |-> d, inputDimensions |-> InputDimensions] : d \in
        { <<>>,
          <<Person(BoxA)>>,
          <<Person(BoxLeft), Person(BoxRight)>>,
          <<Detection("person", 90, Undefined)>>,
          <<Detection("motion", 100, BoxA)>> }}

Classes == {"person", "car"}

\* The settings the host builds from the detection model's classes (main.ts
\* 200-222): every class enabled, and per class minScore 0.7, iouThreshold
\* 0.5, movementThreshold 10 and the given minConfirmationFrames.
ClassValues(classes, minConfirmationFrames) ==
    [key \in {<<c, p>> : c \in classes,
                         p \in {"minScore", "minConfirmationFrames",
                                "movementThreshold", "iouThreshold"}} |->
        CASE key[2] = "minScore" -> 70
          [] key[2] = "minConfirmationFrames" -> minConfirmationFrames
          [] key[2] = "movementThreshold" -> 10
          [] key[2] = "iouThreshold" -> 50]

\* The detection model reports the object classes, or these and "motion".
ModelClasses == {Classes, Classes \cup {"motion"}}

SettingsChoices ==
    {[enabledClasses |-> cs, values |-> ClassValues(cs, n)] :
        cs \in ModelClasses, n \in {1, 3}}

SessionIds == {"3fa9"}

\* Date.now() at construction, on a clock that starts at 0 a second earlier.
StartTime == 1000

\* Between two calls either no measurable time passes, or more than the
\* refresh period.
LongGap == RefreshMs + 1000

TimeSteps == {0, LongGap}

\* Disjoint from BoxA; its centroid is 70 to the right of BoxA's.
BoxFar == <<80, 10, 50, 50>>

\* The frames of the end-to-end scenarios: one object that stays, shifts a
\* little, shifts with overlap, jumps away or fills the image, a motion
\* detection, a detection without a box, and nothing.
SceneFrames ==
    {[detections |-> d, inputDimensions |-> InputDimensions] : d \in
        { <<>>,
          <<Person(BoxA)>>,
          <<Person(BoxNear)>>,
          <<Person(BoxLeft)>>,
          <<Person(BoxRight)>>,
          <<Person(BoxFar)>>,
          <<Person(BoxHuge)>>,
          <<Detection("person", 90, Undefined)>>,
          <<Detection("motion", 100, BoxA)>> }}

\* The scenarios' settings: the object classes enabled, "motion" not.
SceneSettings ==
    {[enabledClasses |-> Classes, values |-> ClassValues(Classes, n)] : n \in {1, 2, 3}}

-----------------------------------------------------------------------------
(* The state machine *)

ActiveIdsOf(trs) == {trs[i].id : i \in {j \in 1..Len(trs) : trs[j].active}}

PendingIdsOf(trs) == {trs[i].id : i \in {j \in 1..Len(trs) : ~ trs[j].active}}

CreatedIn(events) ==
    LET created == SelectSeq(events, LAMBDA e : e.kind = "create")
    IN  [i \in 1..Len(created) |-> created[i].id]

Observation(kind, basicOnly, events, t) ==
    [kind |-> kind, basicOnly |-> basicOnly, events |-> events,
     prevActive |-> ActiveIdsOf(tracks), prevPending |-> PendingIdsOf(tracks),
     neverEmitted |-> lastDetectionId = Undefined,
     refreshDue |-> lastDetectionId # Undefined /\ t - lastDetectionId[1] > RefreshMs]

\* No list was handed to prefilterDetections on its own.
NoPrefilter ==
    [detections |-> <<>>, inputDimensions |-> <<0, 0>>, returned |-> <<>>]

\* calculateIoU was not applied.
NoIoURun == [boxes |-> <<>>, ious |-> <<>>]

\* No BasicAudioDetectorMixin was constructed.
NoSampler == [constructed |-> FALSE]

\* No ObjectDetectionPlugin was constructed.
NoPlugin == [constructed |-> FALSE]

\* No ObjectDetectionMixin was constructed.
NoAnalysis == [constructed |-> FALSE]

\* No ObjectDetectionMixin was constructed to start analysis loops.
NoMixin == [constructed |-> FALSE]

\* Nothing outside the tracker session is in use.
AuxIdle ==
    /\ iouRun = NoIoURun
    /\ sampler = NoSampler
    /\ plugin = NoPlugin
    /\ analysis = NoAnalysis
    /\ mixin = NoMixin

\* No call was logged.
NoInput ==
    [frame |-> [detections |-> <<>>, inputDimensions |-> <<0, 0>>],
     basicOnly |-> FALSE, repeats |-> 0]

\* The session after new ObjectTracker({maxMisses, logger, session}).
InitWith(missesChoices, settingsChoices) ==
    /\ tracks = <<>>
    /\ lostTracks = <<>>
    /\ lastActiveIds = {}
    /\ nextTrackId = 1
    /\ lastDetectionId = Undefined
    /\ currentFrame = 0
    /\ sessionId \in SessionIds
    /\ useMatrix \in BOOLEAN
    /\ maxMisses \in missesChoices
    /\ settings \in settingsChoices
    /\ now = StartTime
    /\ result = [kind |-> "none", active |-> <<>>, pending |-> <<>>,
                 detectionId |-> Undefined]
    /\ obs = [kind |-> "none", basicOnly |-> FALSE, events |-> <<>>,
              prevActive |-> {}, prevPending |-> {}, neverEmitted |-> TRUE,
              refreshDue |-> FALSE]
    /\ calls = 0
    /\ createdIds = <<>>
    /\ everActive = {}
    /\ evictedTracks = {}
    /\ input = NoInput

Init ==
    /\ InitWith({MaxMissesArg}, SettingsChoices)
    /\ prefilter = NoPrefilter
    /\ AuxIdle

\* update throws in prefilterDetections: nothing but emptyFrameCount (always 0)
\* was written.
UpdateThrows(frame, basicOnly, t) ==
    /\ PrefilterThrows(frame.detections)
    /\ result' = [kind |-> "threw", active |-> <<>>, pending |-> <<>>,
                  detectionId |-> Undefined]
    /\ obs' = Observation("threw", basicOnly, <<>>, t)
    /\ UNCHANGED <<tracks, lostTracks, lastActiveIds, nextTrackId, lastDetectionId,
                   currentFrame, createdIds, everActive, evictedTracks>>

\* main.ts 626-632
UpdateBasic(frame, basicOnly, t) ==
    /\ ~ PrefilterThrows(frame.detections)
    /\ basicOnly
    /\ LET detections ==
               prefilterDetections(frame.detections, frame.inputDimensions, settings)
       IN  result' = [kind |-> "returned",
                      active |-> detections \o addMotionEntries(detections),
                      pending |-> <<>>, detectionId |-> Undefined]
    /\ currentFrame' = currentFrame + 1
    /\ obs' = Observation("basic", basicOnly, <<>>, t)
    /\ UNCHANGED <<tracks, lostTracks, lastActiveIds, nextTrackId, lastDetectionId,
                   createdIds, everActive, evictedTracks>>

\* main.ts 667-676: the detectionId of a call that reads the clock at t, given
\* the ids it confirmed and the active list it built.
DetectionIdAt(newlyConfirmedIds, active, t) ==
    IF sceneChanged(newlyConfirmedIds, lastActiveIds, CurrentActiveIds(active),
                    active, lastDetectionId, t)
    THEN getNewDetectionId(sessionId, currentFrame)
    ELSE Undefined

\* main.ts 664-687: the result and the scene-change test, on what the
\* association (p) and the two lifecycle loops (missed) left.
Finish(p, missed, built, basicOnly, t) ==
    LET currentActiveIds == CurrentActiveIds(built.active)
        detectionId == DetectionIdAt(p.newlyConfirmedIds, built.active, t)
    IN  /\ tracks' = missed.tracks
        /\ lostTracks' = CleanupLost(missed.lostTracks)
        /\ nextTrackId' = p.nextTrackId
        /\ lastDetectionId' = IF detectionId # Undefined THEN Some(t)
                              ELSE lastDetectionId
        /\ lastActiveIds' = currentActiveIds
        /\ currentFrame' = currentFrame + 1
        /\ result' = [kind |-> "returned", active |-> built.active,
                      pending |-> built.pending, detectionId |-> detectionId]
        /\ obs' = Observation("tracking", basicOnly, p.events, t)
        /\ createdIds' = createdIds \o CreatedIn(p.events)
        /\ everActive' = everActive \cup ActiveIdsOf(missed.tracks)
        /\ evictedTracks' = evictedTracks \cup EvictedFrom(missed.lostTracks)

\* main.ts 641-653, then the rest.
Lifecycle(p, missed, basicOnly, t) ==
    Finish(p, missed, buildActiveTracks(missed.tracks), basicOnly, t)

Associate(detections, assignments) ==
    IF useMatrix
    THEN processWithMatrix(tracks, lostTracks, nextTrackId, settings, detections,
                           assignments)
    ELSE processWithIOU(tracks, lostTracks, nextTrackId, settings, detections)

Tracked(p, basicOnly, t) ==
    Lifecycle(p,
              MissLoop([tracks |-> p.tracks, lostTracks |-> p.lostTracks],
                       p.tracks, p.updatedTrackIds, 1),
              basicOnly, t)

\* main.ts 634-687
UpdateTracking(frame, basicOnly, t) ==
    /\ ~ PrefilterThrows(frame.detections)
    /\ ~ basicOnly
    /\ \E detections \in
            {prefilterDetections(frame.detections, frame.inputDimensions, settings)} :
       \E assignments \in (IF useMatrix THEN MunkresCompute(detections, tracks)
                           ELSE {{}}) :
           Tracked(Associate(detections, assignments), basicOnly, t)

\* One call update(detected, basicDetectionsOnly) on a frame of the given set,
\* dt milliseconds after the previous call.
UpdateCall(frame, basicOnly, dt) ==
    /\ now + dt <= StartTime + MaxLongGaps * LongGap
    /\ now' = now + dt
    /\ calls' = calls + 1
    /\ \/ UpdateThrows(frame, basicOnly, now + dt)
       \/ UpdateBasic(frame, basicOnly, now + dt)
       \/ UpdateTracking(frame, basicOnly, now + dt)
    /\ UNCHANGED <<sessionId, useMatrix, maxMisses, settings, prefilter>>

UpdateOver(frames) ==
    /\ calls < MaxCalls
    /\ \E frame \in frames, basicOnly \in BOOLEAN, dt \in TimeSteps :
          UpdateCall(frame, basicOnly, dt)
    /\ UNCHANGED input

\* The arguments of a call, and how many calls in a row, this one included,
\* were made with them.
Logged(frame, basicOnly) ==
    [frame |-> frame, basicOnly |-> basicOnly,
     repeats |-> IF input.frame = frame /\ input.basicOnly = basicOnly
                 THEN input.repeats + 1 ELSE 1]

\* The same call with basicDetectionsOnly among modes, its arguments logged.
UpdateLogged(frames, modes) ==
    /\ calls < MaxCalls
    /\ \E frame \in frames, basicOnly \in modes, dt \in TimeSteps :
          /\ UpdateCall(frame, basicOnly, dt)
          /\ input' = Logged(frame, basicOnly)

Update == UpdateOver(Frames) /\ UNCHANGED auxVars

\* The host changes session.settings between two calls.
ChangeSettings ==
    /\ calls < MaxCalls
    /\ \E s \in SettingsChoices \ {settings} : settings' = s
    /\ UNCHANGED <<tracks, lostTracks, lastActiveIds, nextTrackId, lastDetectionId,
                   currentFrame, sessionId, useMatrix, maxMisses, now, result, obs,
                   calls, createdIds, everActive, evictedTracks, input, prefilter>>
    /\ UNCHANGED auxVars

Next == Update \/ ChangeSettings

Spec == Init /\ [][Next]_vars

\* The scenarios: a session whose tracks survive one missed frame, its
\* settings fixed, every call a tracking-mode update and logged.
InitScenes ==
    /\ InitWith({MaxMissesArg + 1}, SceneSettings)
    /\ prefilter = NoPrefilter
    /\ AuxIdle

NextScenes == UpdateLogged(SceneFrames, {FALSE}) /\ UNCHANGED auxVars

SpecScenes == InitScenes /\ [][NextScenes]_vars

\* prefilterDetections on its own.  The detections a list is made of: objects
\* that duplicate each other, that overlap less, of equal and of different
\* scores and classes, below minScore, filling the image, of a class that may
\* not be enabled, without a box.
PrefilterDetections ==
    { Person(BoxA), Detection("person", 80, BoxNear), Person(BoxLeft),
      Person(BoxRight), Detection("person", 60, BoxA), Person(BoxHuge),
      Detection("car", 90, BoxA), Detection("motion", 100, BoxA),
      Detection("person", 90, Undefined) }

RECURSIVE ListsUpTo(_, _)
ListsUpTo(universe, n) ==
    IF n = 0 THEN {<<>>}
    ELSE LET shorter == ListsUpTo(universe, n - 1)
         IN  shorter \cup {Append(l, d) : l \in shorter, d \in universe}

\* The settings of a session, and settings that lack person-iouThreshold and
\* car-minScore.
PrefilterSettings ==
    SettingsChoices \cup
    {[enabledClasses |-> Classes,
      values |-> [key \in (DOMAIN ClassValues(Classes, 3)) \
                             {<<"person", "iouThreshold">>, <<"car", "minScore">>} |->
                     ClassValues(Classes, 3)[key]]]}

\* BoxA is 0.25 of the small image, BoxHuge more than all of it.
PrefilterDimensions == {InputDimensions, <<100, 100>>}

InitPrefilter ==
    /\ InitWith({MaxMissesArg}, PrefilterSettings)
    /\ prefilter \in
           {[detections |-> d, inputDimensions |-> dims, returned |-> <<>>] :
               d \in ListsUpTo(PrefilterDetections, MaxLen),
               dims \in PrefilterDimensions}
    /\ AuxIdle

\* prefilterDetections({detections, inputDimensions, settings}), on the list
\* first and then on what the application before returned.
ApplyPrefilter ==
    /\ Len(prefilter.returned) < MaxPasses
    /\ \E detections \in
            {IF prefilter.returned = <<>> THEN prefilter.detections
             ELSE prefilter.returned[Len(prefilter.returned)]} :
          /\ ~ PrefilterThrows(detections)
          /\ prefilter' =
                [prefilter EXCEPT
                    !.returned = Append(@, prefilterDetections(
                                               detections, prefilter.inputDimensions,
                                               settings))]
    /\ UNCHANGED <<tracks, lostTracks, lastActiveIds, nextTrackId, lastDetectionId,
                   currentFrame, sessionId, useMatrix, maxMisses, settings, now,
                   result, obs, calls, createdIds, everActive, evictedTracks, input>>
    /\ UNCHANGED auxVars

NextPrefilter == ApplyPrefilter

SpecPrefilter == InitPrefilter /\ [][NextPrefilter]_vars

-----------------------------------------------------------------------------
(* calculateIoU on its own *)

\* The boxes [x, y, width, height] of integer coordinates and sizes, those of
\* no width or no height among them.
IoUBoxes == {<<x, y, w, h>> : x \in 0..MaxCoord, y \in 0..MaxCoord,
                              w \in 0..MaxCoord, h \in 0..MaxCoord}

InitIoU ==
    /\ InitWith({MaxMissesArg}, {CHOOSE s \in SettingsChoices : TRUE})
    /\ useMatrix = FALSE
    /\ prefilter = NoPrefilter
    /\ iouRun \in {[boxes |-> <<a, b>>, ious |-> <<>>] : a \in IoUBoxes, b \in IoUBoxes}
    /\ sampler = NoSampler
    /\ plugin = NoPlugin
    /\ analysis = NoAnalysis
    /\ mixin = NoMixin

\* calculateIoU(a, b), calculateIoU(b, a) and calculateIoU(a, a).
ApplyIoU ==
    /\ iouRun.ious = <<>>
    /\ iouRun' = [iouRun EXCEPT
                     !.ious = <<calculateIoU(iouRun.boxes[1], iouRun.boxes[2]),
                                calculateIoU(iouRun.boxes[2], iouRun.boxes[1]),
                                calculateIoU(iouRun.boxes[1], iouRun.boxes[1])>>]
    /\ UNCHANGED <<tracks, lostTracks, lastActiveIds, nextTrackId, lastDetectionId,
                   currentFrame, sessionId, useMatrix, maxMisses, settings, now,
                   result, obs, calls, createdIds, everActive, evictedTracks, input,
                   prefilter,
                   sampler, plugin, analysis, mixin>>

NextIoU == ApplyIoU

SpecIoU == InitIoU /\ [][NextIoU]_vars

-----------------------------------------------------------------------------
(* The audio sampler: BasicAudioDetectorMixin *)

\* The clock advances by this much at a time: one advance leaves the sampling
\* window open, two close it.
AudioStepMs == 1100

\* Raw RTP packets: a 12-byte header followed by payload bytes that are all
\* the same.  Lengths: the header alone, 8 bytes of payload, 160 bytes of
\* payload (20 ms of PCMU).  Byte 128 is silence (byte 0 would be full scale).
RtpLengths == {RtpHeaderSize, 20, 172}

RtpBytes == {128}

RtpPackets == {[length |-> l, byte |-> b] : l \in RtpLengths, b \in RtpBytes}

\* RtpPacket.deSerialize(rtp).payload: what follows the 12-byte header.
deSerialize(rtp) ==
    [payload |-> [length |-> Max(0, rtp.length - RtpHeaderSize), byte |-> rtp.byte]]

\* 20 * log10(rms || 0.00001) of bytes that are all the same: rms is
\* |byte - 128| / 128, which is 0 for byte 128 and 1 for byte 0.
Decibels(byte) == IF byte = 128 THEN SilenceDb ELSE 0

\* getDecibelsFromRtp_PCMU8(rtpPacket): null (Undefined) for a buffer of at
\* most 12 bytes, else { db, rms } of the bytes from the 13th on.
getDecibelsFromRtp_PCMU8(rtpPacket) ==
    IF rtpPacket.length <= RtpHeaderSize THEN Undefined
    ELSE LET sampleCount == rtpPacket.length - RtpHeaderSize
         IN  IF sampleCount = 0 THEN Undefined
             ELSE Some([db |-> Decibels(rtpPacket.byte)])

\* { dBFS: logMean(samples), dbStdDev: stddev(samples) }, kept as the samples
\* the two numbers are computed from.
Reading(samples) == [of |-> samples]

\* The mixin after its constructor: the 5 s timer that will call init is
\* armed, nothing else has happened.
\*   starting: the startAudioServer calls suspended at one of the two awaits
\*   forwarders: every promise startRtpForwarderProcess returned, in order;
\*       pending (unsettled), running (resolved, the process alive), exited
\*       (killPromise resolved) or rejected; kill: f.kill() was requested
NewSampler ==
    [constructed |-> TRUE,
     killed |-> FALSE,
     audioForwarder |-> 0,
     lastAudioConnection |-> Undefined,
     samples |-> <<>>,
     samplingStart |-> Undefined,
     audioVolumes |-> Undefined,
     initTimer |-> TRUE,
     interval |-> FALSE,
     starting |-> [getVideoStream |-> 0, convertMediaObjectToJSON |-> 0],
     forwarders |-> <<>>,
     ticks |-> 0,
     packets |-> 0,
     event |-> [kind |-> "none"]]

InitAudio ==
    /\ InitWith({MaxMissesArg}, {CHOOSE s \in SettingsChoices : TRUE})
    /\ useMatrix = FALSE
    /\ prefilter = NoPrefilter
    /\ iouRun = NoIoURun
    /\ sampler = NewSampler
    /\ plugin = NoPlugin
    /\ analysis = NoAnalysis
    /\ mixin = NoMixin

\* stopAudioServer(): the kill of the current forwarder is requested (it
\* happens once the forwarder's promise has resolved), nothing is awaited.
stopAudioServer(s) ==
    [s EXCEPT !.forwarders = [f \in DOMAIN s.forwarders |->
                                 IF f = s.audioForwarder
                                 THEN [s.forwarders[f] EXCEPT !.kill = TRUE]
                                 ELSE s.forwarders[f]],
              !.audioForwarder = 0,
              !.lastAudioConnection = Undefined,
              !.samples = <<>>,
              !.samplingStart = Undefined]

\* startAudioServer() up to its first await.
startAudioServer(s) ==
    LET stopped == IF s.audioForwarder # 0 THEN stopAudioServer(s) ELSE s
    IN  [stopped EXCEPT !.starting.getVideoStream = @ + 1]

\* The callbacks of fp.catch and f.killPromise.then:
\* if (this.audioForwarder === fp) this.audioForwarder = undefined.
ClearIfCurrent_Always(audioForwarder, fp) == 0

ClearIfCurrent(audioForwarder, fp) ==
    IF audioForwarder = fp THEN 0 ELSE audioForwarder

AudioStep(s) ==
    /\ sampler.constructed
    /\ sampler' = s
    /\ UNCHANGED <<sessionVars, now, iouRun, plugin, analysis, mixin>>

\* The constructor's timer fires: init() unless the mixin was released.
InitTimerFires ==
    /\ sampler.constructed
    /\ sampler.initTimer
    /\ AudioStep(LET fired == [sampler EXCEPT !.initTimer = FALSE,
                                              !.event = [kind |-> "init"]]
                 IN  IF sampler.killed THEN fired
                     ELSE startAudioServer([fired EXCEPT !.interval = TRUE]))

\* The hourly timer of init fires: await stopAudioServer(), then
\* startAudioServer().
SupervisorTick ==
    /\ sampler.constructed
    /\ sampler.interval
    /\ sampler.ticks < MaxTicks
    /\ AudioStep(startAudioServer(stopAudioServer(
                     [sampler EXCEPT !.ticks = @ + 1, !.event = [kind |-> "tick"]])))

\* cameraDevice.getVideoStream settles: the call goes on to its second await,
\* or ends in its catch.
GetVideoStreamSettles ==
    /\ sampler.constructed
    /\ sampler.starting.getVideoStream > 0
    /\ \E ok \in BOOLEAN :
          AudioStep([sampler EXCEPT
                        !.starting.getVideoStream = @ - 1,
                        !.starting.convertMediaObjectToJSON =
                            IF ok THEN @ + 1 ELSE @,
                        !.event = [kind |-> "getVideoStream"]])

\* convertMediaObjectToJSON resolves: the forwarder is started and becomes the
\* current one.
ForwarderStarted ==
    /\ sampler.constructed
    /\ sampler.starting.convertMediaObjectToJSON > 0
    /\ Len(sampler.forwarders) < MaxForwarders
    /\ AudioStep([sampler EXCEPT
                     !.starting.convertMediaObjectToJSON = @ - 1,
                     !.forwarders = Append(@, [state |-> "pending", kill |-> FALSE]),
                     !.audioForwarder = Len(sampler.forwarders) + 1,
                     !.lastAudioConnection = Some(now),
                     !.event = [kind |-> "started",
                                fp |-> Len(sampler.forwarders) + 1]])

\* convertMediaObjectToJSON rejects: the call ends in its catch.
ConvertFails ==
    /\ sampler.constructed
    /\ sampler.starting.convertMediaObjectToJSON > 0
    /\ AudioStep([sampler EXCEPT
                     !.starting.convertMediaObjectToJSON = @ - 1,
                     !.event = [kind |-> "convertFailed"]])

\* The promise of forwarder fp resolves; a kill requested meanwhile is made.
ForwarderResolves ==
    /\ sampler.constructed
    /\ \E fp \in DOMAIN sampler.forwarders :
          /\ sampler.forwarders[fp].state = "pending"
          /\ AudioStep([sampler EXCEPT
                           !.forwarders[fp].state = "running",
                           !.event = [kind |-> "resolved", fp |-> fp]])

\* A forwarder ends: its start promise rejects, or its process exits (killed
\* or of its own) and its killPromise resolves.
ForwarderEnds ==
    /\ sampler.constructed
    /\ \E fp \in DOMAIN sampler.forwarders :
          /\ sampler.forwarders[fp].state \in {"pending", "running"}
          /\ AudioStep([sampler EXCEPT
                           !.forwarders[fp].state =
                               IF @ = "pending" THEN "rejected" ELSE "exited",
                           !.audioForwarder = ClearIfCurrent(@, fp),
                           !.event = [kind |-> "ended", fp |-> fp,
                                      before |-> sampler.audioForwarder]])

\* onRtp(rtp) of a forwarder whose process is alive.
onRtp(s, rtp) ==
    LET canProcess == /\ ~ Falsy(s.samplingStart)
                      /\ now - s.samplingStart[1] > UpdateSeconds * 1000
        windowed == IF Falsy(s.samplingStart)
                    THEN [s EXCEPT !.samplingStart = Some(now), !.samples = <<>>]
                    ELSE s
        decibels == getDecibelsFromRtp_PCMU8(deSerialize(rtp).payload)
        log == [kind |-> "onRtp", rtp |-> rtp, canProcess |-> canProcess,
                before |-> s.samples, threw |-> FALSE, emitted |-> Undefined]
    IN  IF ~ canProcess
        THEN IF decibels = Undefined
             THEN [windowed EXCEPT !.event = [log EXCEPT !.threw = TRUE]]
             ELSE [windowed EXCEPT !.samples = Append(@, decibels[1].db),
                                   !.event = log]
        ELSE IF s.samples # <<>>
             THEN [s EXCEPT !.samples = <<>>,
                            !.samplingStart = Some(now),
                            !.audioVolumes = Some(Reading(s.samples)),
                            !.event = [log EXCEPT
                                          !.emitted = Some(Reading(s.samples))]]
             ELSE [s EXCEPT !.event = log]

OnRtp ==
    /\ sampler.constructed
    /\ sampler.packets < MaxPackets
    /\ \E fp \in DOMAIN sampler.forwarders, rtp \in RtpPackets :
          /\ sampler.forwarders[fp].state = "running"
          /\ AudioStep(onRtp([sampler EXCEPT !.packets = @ + 1], rtp))

\* release(): await stopAudioServer(); this.killed = true.
Release ==
    /\ sampler.constructed
    /\ ~ sampler.killed
    /\ AudioStep([stopAudioServer(sampler) EXCEPT
                     !.killed = TRUE, !.event = [kind |-> "release"]])

\* Time passes.
AudioClock ==
    /\ sampler.constructed
    /\ now + AudioStepMs <= StartTime + MaxSteps * AudioStepMs
    /\ now' = now + AudioStepMs
    /\ UNCHANGED <<sessionVars, auxVars>>

NextAudio ==
    \/ InitTimerFires
    \/ SupervisorTick
    \/ GetVideoStreamSettles
    \/ ForwarderStarted
    \/ ConvertFails
    \/ ForwarderResolves
    \/ ForwarderEnds
    \/ OnRtp
    \/ Release
    \/ AudioClock

SpecAudio == InitAudio /\ [][NextAudio]_vars

-----------------------------------------------------------------------------
(* The audio sampler over an unbounded time *)

\* The packets onRtp takes a sample from: more than 12 bytes of payload
\* behind the 12-byte header.
SampledRtpPackets ==
    {rtp \in RtpPackets : deSerialize(rtp).payload.length > RtpHeaderSize}

\* A packet arrives at a forwarder whose process is alive, any number of
\* times: packets counts the onRtp calls modulo MaxPackets + 1, and the buffer
\* holds at most MaxSamples samples (a further packet waits for the window to
\* elapse).
PacketArrives ==
    /\ sampler.constructed
    /\ \/ Len(sampler.samples) < MaxSamples
       \/ /\ ~ Falsy(sampler.samplingStart)
          /\ now - sampler.samplingStart[1] > UpdateSeconds * 1000
    /\ \E fp \in DOMAIN sampler.forwarders, rtp \in SampledRtpPackets :
          /\ sampler.forwarders[fp].state = "running"
          /\ AudioStep(onRtp([sampler EXCEPT
                                 !.packets = (@ + 1) % (MaxPackets + 1)], rtp))

\* A timestamp read AudioStepMs later, relative to the same Date.now(): no
\* further back than StartTime, which is more than the window ago once the
\* clock has reached StartTime + MaxSteps * AudioStepMs.
Rebase(t) == IF Falsy(t) THEN t ELSE Some(Max(StartTime, t[1] - AudioStepMs))

\* Time passes, for ever.  onRtp reads the clock only in now - samplingStart:
\* once the clock has reached StartTime + MaxSteps * AudioStepMs the stored
\* timestamps move back instead of the clock moving on.
SamplingClock ==
    /\ sampler.constructed
    /\ IF now + AudioStepMs <= StartTime + MaxSteps * AudioStepMs
       THEN /\ now' = now + AudioStepMs
            /\ sampler' = sampler
       ELSE /\ now' = now
            /\ sampler' = [sampler EXCEPT
                              !.samplingStart = Rebase(@),
                              !.lastAudioConnection = Rebase(@)]
    /\ UNCHANGED <<sessionVars, iouRun, plugin, analysis, mixin>>

NextSampling ==
    \/ InitTimerFires
    \/ SupervisorTick
    \/ GetVideoStreamSettles
    \/ ForwarderStarted
    \/ ConvertFails
    \/ ForwarderResolves
    \/ ForwarderEnds
    \/ PacketArrives
    \/ Release
    \/ SamplingClock

\* Time does not stop: Date.now() goes on whatever the mixin does.
SpecSampling == InitAudio /\ [][NextSampling]_vars /\ WF_vars(SamplingClock)

-----------------------------------------------------------------------------
(* The plugin: ObjectDetectionPlugin.generateObjectDetections *)

\* The tracker of ./objectTracker after new ObjectTracker({ logger, session }).
NewObjectTracker ==
    [tracks |-> <<>>, lastActiveIds |-> {}, nextTrackId |-> 1, currentFrame |-> 0]

\* The second argument of filterOverlappedDetections is the number
\* iouNmsThreshold: indexed as settings it has no key.
NumberAsSettings == [enabledClasses |-> {}, values |-> <<>>]

\* The loop of matchUsingIOU from entry i on, carrying bestMatch and bestIOU.
RECURSIVE MatchUsingIOUFrom(_, _, _, _, _)
MatchUsingIOUFrom(trks, det, i, bestMatch, bestIOU) ==
    IF i > Len(trks) THEN bestMatch
    ELSE LET iou == calculateIoU(det.boundingBox, trks[i].boundingBox)
         IN  IF IouGtThreshold(iou, Some(DefaultIouMatchThreshold)) /\ IouGt(iou, bestIOU)
             THEN MatchUsingIOUFrom(trks, det, i + 1, Some(trks[i].id), iou)
             ELSE MatchUsingIOUFrom(trks, det, i + 1, bestMatch, bestIOU)

matchUsingIOU(trks, det) ==
    MatchUsingIOUFrom(trks, det, 1, Undefined, [num |-> 0, den |-> 1])

\* The loop over the detections of update: acc carries tracks, nextTrackId,
\* assignedTracks and updatedTrackIds.
RECURSIVE UpdateDetections(_, _, _)
UpdateDetections(acc, detections, i) ==
    IF i > Len(detections) THEN acc
    ELSE LET det == detections[i]
             matchId == matchUsingIOU(acc.tracks, det)
         IN  IF matchId # Undefined /\ matchId[1] \notin acc.assignedTracks
             THEN LET track == MapGet(acc.tracks, matchId[1])
                      hits == track.hits + 1
                      updated ==
                          [track EXCEPT
                              !.boundingBox = det.boundingBox,
                              !.className = det.className,
                              !.score = det.score,
                              !.hits = hits,
                              !.misses = 0,
                              !.active = track.active \/ hits >= DefaultMinConfirmations,
                              !.movement = [firstSeen |-> track.movement.firstSeen,
                                            lastSeen |-> Some(now),
                                            moving |-> MovedAtLeast(
                                                track.boundingBox, det.boundingBox,
                                                Some(DefaultMovementThreshold))]]
                  IN  UpdateDetections(
                          [acc EXCEPT
                              !.tracks = MapSet(@, updated),
                              !.assignedTracks = @ \cup {matchId[1]},
                              !.updatedTrackIds = @ \cup {matchId[1]}],
                          detections, i + 1)
             ELSE LET newId == ToString36(acc.nextTrackId)
                      created ==
                          [id |-> newId, boundingBox |-> det.boundingBox,
                           className |-> det.className, score |-> det.score,
                           hits |-> 1, misses |-> 0, active |-> FALSE,
                           movement |-> [firstSeen |-> Some(now),
                                         lastSeen |-> Undefined, moving |-> FALSE]]
                  IN  UpdateDetections(
                          [acc EXCEPT
                              !.tracks = MapSet(@, created),
                              !.nextTrackId = @ + 1,
                              !.updatedTrackIds = @ \cup {newId}],
                          detections, i + 1)

\* The loop over the tracks that were not updated.
RECURSIVE UpdateMisses(_, _, _)
UpdateMisses(trks, updatedTrackIds, i) ==
    IF i > Len(trks) THEN <<>>
    ELSE LET track == trks[i]
             rest == UpdateMisses(trks, updatedTrackIds, i + 1)
         IN  IF track.id \in updatedTrackIds THEN <<track>> \o rest
             ELSE IF track.misses + 1 >= DefaultMaxMisses THEN rest
             ELSE <<[track EXCEPT !.misses = @ + 1, !.movement.moving = FALSE]>> \o rest

\* One entry of active or pending.
TrackResult(track) ==
    [className |-> track.className, score |-> track.score,
     boundingBox |-> track.boundingBox, movement |-> track.movement,
     id |-> track.id]

\* update(detectionsRaw) of ./objectTracker: the tracker it leaves and what it
\* returns.  newlyConfirmedIds stays empty (active is set before it is tested),
\* so a detectionId is made only when an active id disappeared.
update(t, detectionsRaw) ==
    LET detections == filterOverlappedDetections(detectionsRaw, NumberAsSettings)
        acc == UpdateDetections(
                   [tracks |-> t.tracks, nextTrackId |-> t.nextTrackId,
                    assignedTracks |-> {}, updatedTrackIds |-> {}],
                   detections, 1)
        kept == UpdateMisses(acc.tracks, acc.updatedTrackIds, 1)
        activeTracks == SelectSeq(kept, LAMBDA track : track.active)
        active == [i \in 1..Len(activeTracks) |-> TrackResult(activeTracks[i])]
        currentActiveIds == {activeTracks[i].id : i \in 1..Len(activeTracks)}
        detectionId == IF \E id \in t.lastActiveIds : id \notin currentActiveIds
                       THEN Some(<<sessionId, t.currentFrame>>)
                       ELSE Undefined
    IN  [tracker |-> [tracks |-> kept, lastActiveIds |-> currentActiveIds,
                      nextTrackId |-> acc.nextTrackId,
                      currentFrame |-> t.currentFrame + 1],
         returned |-> [active |-> active \o
                                  [i \in 1..Len(active) |->
                                      [boundingBox |-> active[i].boundingBox,
                                       className |-> "motion", score |-> 1]],
                       detectionId |-> detectionId]]

\* The plugin's filterBySettings(detections, settings), settings possibly
\* undefined.
PluginFilterBySettings(detections, sessionSettings) ==
    IF detections = <<>> THEN <<>>
    ELSE IF sessionSettings = Undefined THEN detections
    ELSE SelectSeq(detections, LAMBDA det :
             LET configured == Setting(sessionSettings[1],
                                       <<det.className, "minScore">>)
                 scoreThreshold == IF Falsy(configured) THEN DefaultMinScore
                                   ELSE configured[1]
             IN  /\ det.className \in sessionSettings[1].enabledClasses
                 /\ ~ (det.score < scoreThreshold))

\* if (!objectDetection) throw new Error('Object detector unavailable').
DetectorUnavailable_Never(objectDetection) == FALSE

DetectorUnavailable(objectDetection) == objectDetection = Undefined

\* The plugin, with or without an upstream detector configured, and a session
\* with or without settings.
\*   call: where the one generateObjectDetections call is
\*   trackers: ObjectTracker objects constructed
\*   yielded: what the returned generator yielded
NewPlugins ==
    {[constructed |-> TRUE, objectDetectionDevice |-> device,
      sessionSettings |-> sessionSettings, call |-> "none", error |-> Undefined,
      trackers |-> 0, objectTracker |-> Undefined, yielded |-> <<>>] :
        device \in {Undefined, Some("detector")},
        sessionSettings \in
            {Undefined,
             Some([enabledClasses |-> {"person"}, values |-> ClassValues(Classes, 1)])}}

\* What the upstream detector yields for a frame: nothing, an object, the same
\* object shifted a little, a low score, a class that may be disabled.
UpstreamDetections ==
    {<<>>, <<Person(BoxA)>>, <<Person(BoxNear)>>,
     <<Detection("person", 60, BoxA)>>, <<Detection("car", 90, BoxFar), Person(BoxA)>>}

InitPlugin ==
    /\ InitWith({MaxMissesArg}, {CHOOSE s \in SettingsChoices : TRUE})
    /\ useMatrix = FALSE
    /\ prefilter = NoPrefilter
    /\ iouRun = NoIoURun
    /\ sampler = NoSampler
    /\ plugin \in NewPlugins
    /\ analysis = NoAnalysis
    /\ mixin = NoMixin

PluginStep(p) ==
    /\ plugin.constructed
    /\ plugin' = p
    /\ UNCHANGED <<sessionVars, now, iouRun, sampler, analysis, mixin>>

\* generateObjectDetections(videoFrames, session) up to its await.
GenerateObjectDetections ==
    /\ plugin.constructed
    /\ plugin.call = "none"
    /\ PluginStep(IF DetectorUnavailable(plugin.objectDetectionDevice)
                  THEN [plugin EXCEPT !.call = "threw",
                                      !.error = Some("Object detector unavailable")]
                  ELSE [plugin EXCEPT !.call = "awaiting"])

\* The upstream generateObjectDetections resolves: the tracker is constructed
\* and the generator returned.
UpstreamResolves ==
    /\ plugin.constructed
    /\ plugin.call = "awaiting"
    /\ PluginStep([plugin EXCEPT !.call = "generating",
                                 !.trackers = @ + 1,
                                 !.objectTracker = Some(NewObjectTracker)])

\* The upstream generateObjectDetections rejects.
UpstreamRejects ==
    /\ plugin.constructed
    /\ plugin.call = "awaiting"
    /\ PluginStep([plugin EXCEPT !.call = "threw", !.error = Some("upstream")])

\* One turn of the generator's loop: the upstream result is filtered, tracked
\* and yielded.
TransformFrame ==
    /\ plugin.constructed
    /\ plugin.call = "generating"
    /\ Len(plugin.yielded) < MaxFrames
    /\ \E detections \in UpstreamDetections :
          LET tracked == update(plugin.objectTracker[1],
                                PluginFilterBySettings(detections,
                                                       plugin.sessionSettings))
          IN  PluginStep([plugin EXCEPT
                             !.objectTracker = Some(tracked.tracker),
                             !.yielded = Append(@, tracked.returned)])

\* The upstream generator ends, and with it the returned one.
UpstreamEnds ==
    /\ plugin.constructed
    /\ plugin.call = "generating"
    /\ PluginStep([plugin EXCEPT !.call = "done"])

NextPlugin ==
    \/ GenerateObjectDetections
    \/ UpstreamResolves
    \/ UpstreamRejects
    \/ TransformFrame
    \/ UpstreamEnds

SpecPlugin == InitPlugin /\ [][NextPlugin]_vars

-----------------------------------------------------------------------------
(* The analysis loop: ObjectDetectionMixin.runPipelineAnalysis *)

\* The clock advances by this much at a time: more than HungMs.
AnalysisStepMs == 31000

\* The mixin when runPipelineAnalysis(signal, options) has reached its loop
\* and awaits the first result: of a motion or an object detector, with or
\* without an analyze period.
\*   finished: signal.finished
\*   interval: the hung-analysis timer is set
\*   phase: waiting (for the next result), jpeg (in the awaits that create the
\*       snapshot), sleep (in sleep(250)), ended (the loop was left), threw
\*   frames: the results that arrived, and for each whether the signal was
\*       resolved when it arrived (afterSignal) or while it was processed
\*       (signalDuring), whether processing began and whether it was reported
NewAnalyses ==
    {[constructed |-> TRUE, hasMotionType |-> hasMotionType,
      analyzeStop |-> analyzeStop, finished |-> FALSE, interval |-> TRUE,
      lastStatusTime |-> StartTime, phase |-> "waiting", returned |-> Undefined,
      frames |-> <<>>] :
        hasMotionType \in BOOLEAN,
        analyzeStop \in {Undefined, Some(StartTime + AnalysisStepMs)}}

\* What a result is to the loop: whether it carries a detectionId, and what
\* reportObjectDetections returns for it.
AnalysisResults ==
    {[detectionId |-> detectionId, motionFound |-> motionFound] :
        detectionId \in BOOLEAN, motionFound \in BOOLEAN}

InitAnalysis ==
    /\ InitWith({MaxMissesArg}, {CHOOSE s \in SettingsChoices : TRUE})
    /\ useMatrix = FALSE
    /\ prefilter = NoPrefilter
    /\ iouRun = NoIoURun
    /\ sampler = NoSampler
    /\ plugin = NoPlugin
    /\ analysis \in NewAnalyses
    /\ mixin = NoMixin

AnalysisStep(a) ==
    /\ analysis.constructed
    /\ analysis' = a
    /\ UNCHANGED <<sessionVars, now, iouRun, sampler, plugin, mixin>>

\* if (signal.finished) break.
SignalExamined_Never(finished) == FALSE

SignalExamined(finished) == finished

\* signal.resolve(): the signal is finished and its finally callback clears
\* the timer; the frame in processing, if any, is marked.
ResolveSignal(a) ==
    [a EXCEPT !.finished = TRUE,
              !.interval = FALSE,
              !.frames = [k \in DOMAIN a.frames |->
                             IF k = Len(a.frames) /\ a.phase \in {"jpeg", "sleep"}
                             THEN [a.frames[k] EXCEPT !.signalDuring = TRUE]
                             ELSE a.frames[k]]]

\* The loop body from reportObjectDetections on, for the last frame.
Report(a) ==
    LET frame == a.frames[Len(a.frames)]
        reported == [a EXCEPT !.frames[Len(a.frames)].reported = TRUE]
    IN  IF a.hasMotionType
        THEN IF /\ frame.motionFound
                /\ (Falsy(a.analyzeStop) \/ now > a.analyzeStop[1])
             THEN [reported EXCEPT !.analyzeStop = Undefined,
                                   !.interval = FALSE,
                                   !.phase = "ended",
                                   !.returned = Some(TRUE)]
             ELSE [reported EXCEPT !.phase = "sleep"]
        ELSE [reported EXCEPT !.lastStatusTime = now, !.phase = "waiting"]

\* A result arrives: the loop body up to its first await.
ResultArrives ==
    /\ analysis.constructed
    /\ analysis.phase = "waiting"
    /\ Len(analysis.frames) < MaxFrames
    /\ \E r \in AnalysisResults :
          LET frame(begun) ==
                  [detectionId |-> r.detectionId, motionFound |-> r.motionFound,
                   afterSignal |-> analysis.finished, signalDuring |-> FALSE,
                   begun |-> begun, reported |-> FALSE]
              left == [analysis EXCEPT !.frames = Append(@, frame(FALSE)),
                                       !.phase = "ended"]
              entered == [analysis EXCEPT !.frames = Append(@, frame(TRUE))]
          IN  AnalysisStep(
                  IF SignalExamined(analysis.finished) THEN left
                  ELSE IF /\ ~ analysis.hasMotionType
                          /\ ~ Falsy(analysis.analyzeStop)
                          /\ now > analysis.analyzeStop[1]
                  THEN [left EXCEPT !.analyzeStop = Undefined]
                  ELSE IF r.detectionId
                  THEN [entered EXCEPT !.lastStatusTime = now, !.phase = "jpeg"]
                  ELSE Report(entered))

\* The snapshot was created: setDetection, and the rest of the loop body.
JpegResolves ==
    /\ analysis.constructed
    /\ analysis.phase = "jpeg"
    /\ AnalysisStep(Report(analysis))

\* Creating the snapshot failed: runPipelineAnalysis rejects.
JpegRejects ==
    /\ analysis.constructed
    /\ analysis.phase = "jpeg"
    /\ AnalysisStep([analysis EXCEPT !.phase = "threw"])

\* sleep(250) is over.
SleepEnds ==
    /\ analysis.constructed
    /\ analysis.phase = "sleep"
    /\ AnalysisStep([analysis EXCEPT !.lastStatusTime = now, !.phase = "waiting"])

\* The generator is done.
ResultsEnd ==
    /\ analysis.constructed
    /\ analysis.phase = "waiting"
    /\ AnalysisStep([analysis EXCEPT !.phase = "ended"])

\* endObjectDetection(): this.detectorSignal.resolve().
endObjectDetection ==
    /\ analysis.constructed
    /\ ~ analysis.finished
    /\ AnalysisStep(ResolveSignal(analysis))

\* The hung-analysis timer fires on a status older than HungMs.
HungTimerFires ==
    /\ analysis.constructed
    /\ analysis.interval
    /\ now - analysis.lastStatusTime > HungMs
    /\ AnalysisStep(ResolveSignal(analysis))

\* Time passes.
AnalysisClock ==
    /\ analysis.constructed
    /\ now + AnalysisStepMs <= StartTime + MaxSteps * AnalysisStepMs
    /\ now' = now + AnalysisStepMs
    /\ UNCHANGED <<sessionVars, auxVars>>

NextAnalysis ==
    \/ ResultArrives
    \/ JpegResolves
    \/ JpegRejects
    \/ SleepEnds
    \/ ResultsEnd
    \/ endObjectDetection
    \/ HungTimerFires
    \/ AnalysisClock

SpecAnalysis == InitAnalysis /\ [][NextAnalysis]_vars

-----------------------------------------------------------------------------
(* The analysis loops of one camera: ObjectDetectionMixin *)

\* get detectorRunning(): !this.detectorSignal.finished.
detectorRunning(m) == ~ m.signals[m.detectorSignal].finished

\* signal.resolve() of signal sig: the Deferred is finished at once, and the
\* finally callback of runPipelineAnalysis clears the hung-analysis timer of
\* the call that polls this signal.
ResolveDeferred(m, sig) ==
    [m EXCEPT !.signals[sig].finished = TRUE,
              !.loops = [i \in DOMAIN m.loops |->
                            IF m.loops[i].signal = sig
                            THEN [m.loops[i] EXCEPT !.interval = FALSE]
                            ELSE m.loops[i]]]

\* endObjectDetection() of the mixin: this.detectorSignal.resolve().
EndDetection(m) == ResolveDeferred(m, m.detectorSignal)

\* plugin.canStartObjectDetection(mixin) when this camera is the only one:
\* false if it is among the running detections, else true (no other
\* detection runs, and 0 < lowPerformanceMinThreshold).
canStartObjectDetection(m) == ~ detectorRunning(m)

\* startPipelineAnalysis(): nothing unless the current signal is finished and
\* the mixin was not released; else a new signal becomes the current one and
\* runPipelineAnalysisLoop(signal) runs to its await of updateModel().
startPipelineAnalysis(m) ==
    IF detectorRunning(m) \/ m.released THEN m
    ELSE [m EXCEPT !.signals = Append(@, [finished |-> FALSE]),
                   !.detectorSignal = Len(m.signals) + 1,
                   !.detectionStartTime = Some(now),
                   !.loops = Append(@, [signal |-> Len(m.signals) + 1,
                                        phase |-> "updateModel",
                                        interval |-> FALSE,
                                        lastStatusTime |-> Undefined,
                                        released |-> m.released])]

\* maybeStartDetection() of a mixin whose model has no motion class.
maybeStartDetection(m) ==
    IF ~ m.hasMotionType
    THEN IF m.motionDetected /\ canStartObjectDetection(m)
         THEN startPipelineAnalysis(m)
         ELSE m
    ELSE m

\* bindObjectDetection(): endObjectDetection(); maybeStartDetection().
bindObjectDetection(m) == maybeStartDetection(EndDetection(m))

\* The fields of a mixin before its constructor body runs: detectorSignal is
\* new Deferred().resolve(), signal 1.
\*   motionDetected: cameraDevice.motionDetected
\*   loops: the runPipelineAnalysisLoop calls made, each with the signal it
\*       polls, its hung-analysis timer and where it is: updateModel (in the
\*       await of updateModel), running (in runPipelineAnalysis), ended
\*   listening: the motion listener of register() is installed
\*   sleeping: listener calls in their sleep after the motion stopped
FreshMixin(motionDetected) ==
    [constructed |-> TRUE,
     hasMotionType |-> FALSE,
     released |-> FALSE,
     motionDetected |-> motionDetected,
     detectorSignal |-> 1,
     signals |-> <<[finished |-> TRUE]>>,
     detectionStartTime |-> Undefined,
     loops |-> <<>>,
     listening |-> FALSE,
     sleeping |-> 0,
     changes |-> 0,
     motions |-> 0,
     event |-> "constructor"]

\* The constructor: bindObjectDetection(), then register().
NewMixins ==
    {[bindObjectDetection(FreshMixin(motionDetected)) EXCEPT !.listening = TRUE] :
        motionDetected \in BOOLEAN}

InitMixin ==
    /\ InitWith({MaxMissesArg}, {CHOOSE s \in SettingsChoices : TRUE})
    /\ useMatrix = FALSE
    /\ prefilter = NoPrefilter
    /\ iouRun = NoIoURun
    /\ sampler = NoSampler
    /\ plugin = NoPlugin
    /\ analysis = NoAnalysis
    /\ mixin \in NewMixins

MixinStep(m) ==
    /\ mixin.constructed
    /\ mixin' = m
    /\ UNCHANGED <<sessionVars, now, iouRun, sampler, plugin, analysis>>

\* The camera reports motion: the listener calls maybeStartDetection().
MotionStarts ==
    /\ mixin.constructed
    /\ mixin.listening
    /\ ~ mixin.motionDetected
    /\ mixin.motions < MaxMotions
    /\ Len(mixin.loops) < MaxLoops
    /\ MixinStep(maybeStartDetection(
                     [mixin EXCEPT !.motionDetected = TRUE,
                                   !.motions = @ + 1,
                                   !.event = "motion"]))

\* The camera reports that the motion stopped: the listener ends the
\* detection at once (postMotionAnalysisDuration 0), or sleeps first.
MotionStops ==
    /\ mixin.constructed
    /\ mixin.listening
    /\ mixin.motionDetected
    /\ mixin.motions < MaxMotions
    /\ \E sleeps \in BOOLEAN :
          LET stopped == [mixin EXCEPT !.motionDetected = FALSE,
                                       !.motions = @ + 1,
                                       !.event = "motionStopped"]
          IN  MixinStep(IF sleeps THEN [stopped EXCEPT !.sleeping = @ + 1]
                        ELSE IF detectorRunning(stopped) THEN EndDetection(stopped)
                        ELSE stopped)

\* The sleep of a listener call is over: nothing if motion resumed, else the
\* detection is ended.
PostMotionSleepEnds ==
    /\ mixin.constructed
    /\ mixin.sleeping > 0
    /\ LET woken == [mixin EXCEPT !.sleeping = @ - 1, !.event = "woken"]
       IN  MixinStep(IF woken.motionDetected THEN woken
                     ELSE IF detectorRunning(woken) THEN EndDetection(woken)
                     ELSE woken)

\* putMixinSetting(key, value) of a detection setting: bindObjectDetection().
PutMixinSetting ==
    /\ mixin.constructed
    /\ mixin.changes < MaxChanges
    /\ Len(mixin.loops) < MaxLoops
    /\ MixinStep(bindObjectDetection(
                     [mixin EXCEPT !.changes = @ + 1, !.event = "setting"]))

\* updateModel() settles in runPipelineAnalysisLoop: runPipelineAnalysis is
\* called unless the signal is finished, and sets its hung-analysis timer;
\* else the loop is over and the finally callback resolves its signal.
UpdateModelSettles ==
    /\ mixin.constructed
    /\ \E i \in DOMAIN mixin.loops :
          /\ mixin.loops[i].phase = "updateModel"
          /\ MixinStep(
                 IF mixin.signals[mixin.loops[i].signal].finished
                 THEN ResolveDeferred(
                          [mixin EXCEPT !.loops[i].phase = "ended",
                                        !.event = "skipped"],
                          mixin.loops[i].signal)
                 ELSE [mixin EXCEPT !.loops[i].phase = "running",
                                    !.loops[i].interval = TRUE,
                                    !.loops[i].lastStatusTime = Some(now),
                                    !.event = "entered"])

\* The detector yields a result to a runPipelineAnalysis call: the call
\* leaves its loop if its signal is finished, else handles the result and
\* awaits the next.
PipelineResult ==
    /\ mixin.constructed
    /\ \E i \in DOMAIN mixin.loops :
          /\ mixin.loops[i].phase = "running"
          /\ MixinStep(
                 IF SignalExamined(mixin.signals[mixin.loops[i].signal].finished)
                 THEN ResolveDeferred(
                          [mixin EXCEPT !.loops[i].phase = "ended",
                                        !.event = "left"],
                          mixin.loops[i].signal)
                 ELSE [mixin EXCEPT !.loops[i].lastStatusTime = Some(now),
                                    !.event = "result"])

\* A runPipelineAnalysis call is over without a result: the stream or the
\* detector failed, or the detector is done.  The finally callback resolves
\* its signal.
PipelineEnds ==
    /\ mixin.constructed
    /\ \E i \in DOMAIN mixin.loops :
          /\ mixin.loops[i].phase = "running"
          /\ MixinStep(ResolveDeferred(
                           [mixin EXCEPT !.loops[i].phase = "ended",
                                         !.event = "over"],
                           mixin.loops[i].signal))

\* The hung-analysis timer of a runPipelineAnalysis call fires on a status
\* older than HungMs: signal.resolve().
PipelineHung ==
    /\ mixin.constructed
    /\ \E i \in DOMAIN mixin.loops :
          /\ mixin.loops[i].interval
          /\ now - mixin.loops[i].lastStatusTime[1] > HungMs
          /\ MixinStep(ResolveDeferred([mixin EXCEPT !.event = "hung"],
                                       mixin.loops[i].signal))

\* release(): released, the listener removed, endObjectDetection().
ReleaseMixin ==
    /\ mixin.constructed
    /\ ~ mixin.released
    /\ MixinStep(EndDetection([mixin EXCEPT !.released = TRUE,
                                            !.listening = FALSE,
                                            !.event = "release"]))

\* Time passes.
MixinClock ==
    /\ mixin.constructed
    /\ now + AnalysisStepMs <= StartTime + MaxSteps * AnalysisStepMs
    /\ now' = now + AnalysisStepMs
    /\ UNCHANGED <<sessionVars, auxVars>>

NextMixin ==
    \/ MotionStarts
    \/ MotionStops
    \/ PostMotionSleepEnds
    \/ PutMixinSetting
    \/ UpdateModelSettles
    \/ PipelineResult
    \/ PipelineEnds
    \/ PipelineHung
    \/ ReleaseMixin
    \/ MixinClock

SpecMixin == InitMixin /\ [][NextMixin]_vars

-----------------------------------------------------------------------------
(* Sessions that outlive a lost track *)

\* Long enough to lose a track, hold it for maxLostFrames frames, evict it and
\* see its object again.
EvictionCalls == MaxCalls + maxLostFrames

\* Nothing, an object, and an object elsewhere.
EvictionFrames ==
    {[detections |-> d, inputDimensions |-> InputDimensions] :
        d \in {<<>>, <<Person(BoxA)>>, <<Person(BoxFar)>>}}

InitEviction ==
    /\ InitWith({MaxMissesArg},
                {[enabledClasses |-> Classes, values |-> ClassValues(Classes, 1)]})
    /\ prefilter = NoPrefilter
    /\ AuxIdle

\* A tracking-mode update, logged.
UpdateEviction ==
    /\ calls < EvictionCalls
    /\ \E frame \in EvictionFrames :
          /\ UpdateCall(frame, FALSE, 0)
          /\ input' = Logged(frame, FALSE)
    /\ UNCHANGED auxVars

NextEviction == UpdateEviction

\* The generator calls update for every frame the detector yields, and the
\* detector goes on yielding.
SpecEviction == InitEviction /\ [][NextEviction]_vars /\ WF_vars(NextEviction)

-----------------------------------------------------------------------------
(* Sessions that see two objects at a time *)

Car(box) == Detection("car", 90, box)

\* IoU 38/62 with BoxRight, 28/72 with BoxA, 18/82 with BoxLeft.
BoxEdge == <<32, 10, 50, 50>>

\* Nothing, one object, two objects that overlap the place of a third, two
\* that a track each may claim, two that are far apart, a person and a car
\* in one place, a car, an object and its duplicate.
TwoObjectFrames ==
    {[detections |-> d, inputDimensions |-> InputDimensions] : d \in
        { <<>>,
          <<Person(BoxA)>>,
          <<Person(BoxLeft), Person(BoxRight)>>,
          <<Person(BoxA), Person(BoxEdge)>>,
          <<Person(BoxA), Person(BoxFar)>>,
          <<Person(BoxA), Car(BoxA)>>,
          <<Car(BoxA)>>,
          <<Person(BoxA), Detection("person", 80, BoxNear)>> }}

\* Every key present; minConfirmationFrames 0, 1 or 2.
TwoObjectSettings ==
    {[enabledClasses |-> Classes, values |-> ClassValues(Classes, n)] : n \in {0, 1, 2}}

InitPairs ==
    /\ InitWith({MaxMissesArg}, TwoObjectSettings)
    /\ prefilter = NoPrefilter
    /\ AuxIdle

\* A tracking-mode update, logged.
UpdatePairs ==
    /\ calls < MaxCalls
    /\ \E frame \in TwoObjectFrames :
          /\ UpdateCall(frame, FALSE, 0)
          /\ input' = Logged(frame, FALSE)
    /\ UNCHANGED auxVars

NextPairs == UpdatePairs

SpecPairs == InitPairs /\ [][NextPairs]_vars

-----------------------------------------------------------------------------
(* Sessions whose settings hold no value for a class *)

\* IoU 0.8 with BoxA; the centroid is 5 above BoxA's.
BoxShort == <<10, 10, 50, 40>>

\* Every key present, and no key of class person.
SparseSettings ==
    {[enabledClasses |-> Classes, values |-> ClassValues(Classes, 3)],
     [enabledClasses |-> Classes, values |-> ClassValues({"car"}, 3)]}

\* Nothing, a person, the person a little shorter, the person far away, and a
\* person of score 0.6.
SparseFrames ==
    {[detections |-> d, inputDimensions |-> InputDimensions] : d \in
        { <<>>,
          <<Person(BoxA)>>,
          <<Person(BoxShort)>>,
          <<Person(BoxFar)>>,
          <<Detection("person", 60, BoxA)>> }}

\* A greedy session.
InitSparse ==
    /\ InitWith({MaxMissesArg + 1}, SparseSettings)
    /\ useMatrix = FALSE
    /\ prefilter = NoPrefilter
    /\ AuxIdle

\* A tracking-mode update, logged.
UpdateSparse ==
    /\ calls < MaxCalls
    /\ \E frame \in SparseFrames :
          /\ UpdateCall(frame, FALSE, 0)
          /\ input' = Logged(frame, FALSE)
    /\ UNCHANGED auxVars

NextSparse == UpdateSparse

SpecSparse == InitSparse /\ [][NextSparse]_vars

-----------------------------------------------------------------------------
(* Properties *)

CurrentActive == ActiveIdsOf(tracks)

Returned == result.kind = "returned"

Emitted == result.detectionId # Undefined

\* C1: after every call of update no track id is a key of both tracks and
\* lostTracks.
MapsDisjoint == MapKeys(tracks) \cap MapKeys(lostTracks) = {}

\* A call revived a lost track: the track moved from lostTracks to tracks.
MapsDisjointWitness ==
    \E i \in 1..Len(obs.events) :
        /\ obs.events[i].kind = "revive"
        /\ obs.events[i].id \in MapKeys(tracks)

\* C2: the decoded ids of the tracks created in a session are strictly
\* increasing in creation order, so no id is given twice, and every track the
\* session holds is one of them.
IdsMonotonic ==
    /\ \A i, j \in 1..Len(createdIds) :
          i < j => ParseInt36(createdIds[i]) < ParseInt36(createdIds[j])
    /\ MapKeys(tracks) \cup MapKeys(lostTracks) \subseteq Range(createdIds)

\* A track was created in the last call while an earlier track is evicted.
IdsMonotonicWitness ==
    /\ \E i \in 1..Len(obs.events) : obs.events[i].kind = "create"
    /\ \E i \in 1..Len(createdIds) :
          createdIds[i] \notin MapKeys(tracks) \cup MapKeys(lostTracks)

\* C3: a track that was Active after some call of update is not Pending after
\* any later call.
ConfirmationSticky == everActive \cap PendingIdsOf(tracks) = {}

\* C4: in one call no track is associated with or created from two
\* detections, and no detection updates or creates two tracks.
OneToOne ==
    \A i, j \in 1..Len(obs.events) :
        i # j => /\ obs.events[i].id # obs.events[j].id
                 /\ obs.events[i].det # obs.events[j].det

\* A call in which one detection updated a track and another created one.
OneToOneWitness ==
    /\ Len(obs.events) = 2
    /\ \E i \in 1..2 : obs.events[i].kind = "update"
    /\ \E i \in 1..2 : obs.events[i].kind = "create"

\* C5: a tracking-mode call returns a detectionId only if a track became
\* Active in it, or the Active set was empty before and is not now, or an id
\* Active before is no longer Active, or some track is Active and more than
\* 5 s passed since the last detectionId (or none was emitted yet).
EmittedOnlyOnSceneChange ==
    (obs.kind = "tracking" /\ Emitted) =>
        \/ CurrentActive \ obs.prevActive # {}
        \/ (obs.prevActive = {} /\ CurrentActive # {})
        \/ obs.prevActive \ CurrentActive # {}
        \/ (CurrentActive # {} /\ (obs.refreshDue \/ obs.neverEmitted))

\* C6: a tracking-mode call in which a track changes from Pending to Active
\* returns a detectionId.
ConfirmationEmits ==
    (obs.kind = "tracking" /\ obs.prevPending \cap CurrentActive # {}) => Emitted

\* C7: a tracking-mode call after which an id that was Active before it is no
\* longer Active returns a detectionId.
DisappearanceEmits ==
    (obs.kind = "tracking" /\ obs.prevActive \ CurrentActive # {}) => Emitted

\* An Active track left the Active set in the last call, less than the
\* refresh period after the last detectionId.
DisappearanceEmitsWitness ==
    /\ obs.kind = "tracking"
    /\ obs.prevActive \ CurrentActive # {}
    /\ ~ obs.refreshDue /\ ~ obs.neverEmitted
    /\ Emitted

\* C8: every call of update increases currentFrame by one, after the result is
\* built: the k-th call's detectionId is "{sessionId}-k", k counted from 0.
FrameCountsCalls ==
    /\ currentFrame = calls
    /\ Emitted => result.detectionId = Some(<<sessionId, calls - 1>>)

\* C9: a call with basicOnly = true returns pending = [], no detectionId and
\* active = some detections followed by their motion entries, and changes
\* nothing of the session but currentFrame, which advances by one.
BasicOnlyBypasses ==
    [][(calls' = calls + 1 /\ obs'.basicOnly) =>
          /\ result'.kind = "returned"
          /\ result'.pending = <<>>
          /\ result'.detectionId = Undefined
          /\ \E k \in 0..Len(result'.active) :
                result'.active = SubSeq(result'.active, 1, k) \o
                                 addMotionEntries(SubSeq(result'.active, 1, k))
          /\ currentFrame' = currentFrame + 1
          /\ UNCHANGED <<tracks, lostTracks, nextTrackId, lastActiveIds,
                         lastDetectionId>>]_vars

MotionEntries(active) == SelectSeq(active, LAMBDA e : e.className = "motion")

BoxedObjects(active) ==
    SelectSeq(active, LAMBDA e : e.className # "motion" /\ e.boundingBox # Undefined)

\* C10: in every FrameResult the number of motion entries of active is
\* max(1, number of its other entries that have a boundingBox); with no other
\* entry there is one motion entry, without a box.
MotionParity ==
    Returned =>
        /\ Len(MotionEntries(result.active)) =
               Max(1, Len(BoxedObjects(result.active)))
        /\ Len(MotionEntries(result.active)) = Len(result.active) =>
               result.active = <<MotionEntry(Undefined)>>

-----------------------------------------------------------------------------
(* Properties of the logged calls *)

\* C11: update completes without raising an error, whatever the frame holds.
UpdateCompletes == result.kind # "threw"

Malformed(det) == det.boundingBox = Undefined \/ det.className = "motion"

\* C12: a detection of the frame that has no boundingBox, or is of class
\* "motion", is in the active list of the result as it came, and no track
\* carries it.
MalformedPassThrough ==
    \A i \in 1..Len(input.frame.detections) :
        Malformed(input.frame.detections[i]) =>
            /\ Returned
            /\ \E k \in 1..Len(result.active) :
                  result.active[k] = input.frame.detections[i]
            /\ \A j \in 1..Len(tracks) :
                  ~ (/\ tracks[j].className = input.frame.detections[i].className
                     /\ tracks[j].boundingBox = input.frame.detections[i].boundingBox)

\* The FrameResult of a tracking-mode call that reads the clock at t, from
\* what the association left (main.ts 641-687).
ResultAfter(p, t) ==
    LET missed == MissLoop([tracks |-> p.tracks, lostTracks |-> p.lostTracks],
                           p.tracks, p.updatedTrackIds, 1)
        built == buildActiveTracks(missed.tracks)
    IN  [active |-> built.active, pending |-> built.pending,
         detectionId |-> DetectionIdAt(p.newlyConfirmedIds, built.active, t)]

\* The assignments Munkres may return for the detections, none when greedy.
AssignmentsFor(detections) ==
    IF useMatrix THEN MunkresCompute(detections, tracks) ELSE {{}}

\* The FrameResults update(frame, false) can return in the current state
\* when the clock reads t.
ResultsAt(frame, t) ==
    LET detections ==
            prefilterDetections(frame.detections, frame.inputDimensions, settings)
    IN  {ResultAfter(Associate(detections, a), t) : a \in AssignmentsFor(detections)}

\* C13: in one session state, with one frame and the same settings, a
\* tracking-mode call returns the same FrameResult whenever it is made.
ResultIgnoresClock ==
    \A frame \in Frames, dt \in TimeSteps :
        ~ PrefilterThrows(frame.detections) =>
            ResultsAt(frame, now) = ResultsAt(frame, now + dt)

\* A pairing the association may make: same className, IoU above the class
\* threshold.
Feasible(det, track) ==
    /\ det.className = track.className
    /\ IouGtThreshold(
           calculateIoU(det.boundingBox, track.boundingBox),
           Setting(settings, getClassnameSettings(track.className).iouThresholdSetting))

FeasiblePairs(detections) ==
    {pair \in (1..Len(detections)) \X (1..Len(tracks)) :
        Feasible(detections[pair[1]], tracks[pair[2]])}

\* this.tracks after the "check not updated tracks" loop.
TracksAfter(p) ==
    MissLoop([tracks |-> p.tracks, lostTracks |-> p.lostTracks],
             p.tracks, p.updatedTrackIds, 1).tracks

\* The frames the two strategies are compared on: those of the session, and
\* one with an object at BoxA and another far from it.
PairFrames ==
    Frames \cup {[detections |-> <<Person(BoxA), Person(BoxFar)>>,
                  inputDimensions |-> InputDimensions]}

SameOutcome(g, h) ==
    /\ g.events = h.events
    /\ TracksAfter(g) = TracksAfter(h)

\* C14: in a session state and for a frame with exactly one feasible pairing
\* of a pre-filtered detection and a track, greedy and Hungarian association
\* make the same assignments, create the same tracks and leave the same
\* tracks map.
StrategiesAgree ==
    \A frame \in PairFrames :
        ~ PrefilterThrows(frame.detections) =>
            \A detections \in
                 {prefilterDetections(frame.detections, frame.inputDimensions,
                                      settings)} :
                Cardinality(FeasiblePairs(detections)) = 1 =>
                    \A a \in MunkresCompute(detections, tracks) :
                        SameOutcome(
                            processWithIOU(tracks, lostTracks, nextTrackId, settings,
                                           detections),
                            processWithMatrix(tracks, lostTracks, nextTrackId,
                                              settings, detections, a))

\* The value person-minConfirmationFrames of the session's settings.
MinConfirmationFrames ==
    Setting(settings, getClassnameSettings("person").minConfirmationFramesSetting)[1]

\* Every call so far was a tracking-mode update on the frame that holds the
\* detections given, and there was at least one.
OnlySeen(detections) ==
    /\ calls >= 1
    /\ input.repeats = calls
    /\ ~ input.basicOnly
    /\ input.frame.detections = detections

\* The result entry of a person track at box.
PersonEntry(id, box, moving) ==
    [className |-> "person", score |-> 90, boundingBox |-> box,
     id |-> Some(id), movement |-> Some(moving)]

FirstSighting ==
    /\ calls = 1
    /\ OnlySeen(<<Person(BoxA)>>)
    /\ MinConfirmationFrames = 3

\* C16 (as stated): after the first tracking-mode update, on a frame with one
\* person at BoxA and minConfirmationFrames 3, pending holds exactly the track
\* "1" and active exactly one motion entry that carries BoxA.
FirstSightingBoxedSentinel ==
    FirstSighting =>
        /\ result.pending = <<PersonEntry(ToString36(1), BoxA, FALSE)>>
        /\ result.active = <<MotionEntry(BoxA)>>

\* C16: after the first tracking-mode update, on a frame with one person at
\* BoxA and minConfirmationFrames 3, pending holds exactly the track "1" and
\* active exactly one motion entry, which has no boundingBox.
FirstSightingBareSentinel ==
    FirstSighting =>
        /\ result.pending = <<PersonEntry(ToString36(1), BoxA, FALSE)>>
        /\ result.active = <<MotionEntry(Undefined)>>

FirstSightingWitness ==
    /\ FirstSighting
    /\ Returned
    /\ Len(result.pending) = 1

\* C17: with minConfirmationFrames n >= 2 and every call so far a tracking-mode
\* update on the same frame, one person at BoxA, the object is track "1": in
\* results 1..n-1 it is the only entry of pending and active holds no object,
\* from result n on active is the track with moving = false followed by one
\* motion entry, and pending is empty.
ConfirmedOnNthFrame ==
    (OnlySeen(<<Person(BoxA)>>) /\ MinConfirmationFrames >= 2) =>
        IF calls < MinConfirmationFrames
        THEN /\ result.pending = <<PersonEntry(ToString36(1), BoxA, FALSE)>>
             /\ result.active = <<MotionEntry(Undefined)>>
        ELSE /\ result.pending = <<>>
             /\ result.active = <<PersonEntry(ToString36(1), BoxA, FALSE),
                                  MotionEntry(BoxA)>>

\* The call after the one that confirmed the track.
ConfirmedOnNthFrameWitness ==
    /\ OnlySeen(<<Person(BoxA)>>)
    /\ MinConfirmationFrames >= 2
    /\ calls > MinConfirmationFrames
    /\ Returned
    /\ Len(result.active) = 2

\* This step is a tracking-mode update on a frame whose only detection is
\* det, and det passes the pre-filter.
TrackingCallOn(det) ==
    /\ calls' = calls + 1
    /\ ~ input'.basicOnly
    /\ input'.frame.detections = <<det>>
    /\ ~ PrefilterThrows(<<det>>)
    /\ LargeKeep(input'.frame.inputDimensions, det)
    /\ SettingsKeep(settings, det)

\* det is of the track's class and its centroid is at least movementThreshold
\* away from the centroid of the track's box.
ShiftedDetection(track, det) ==
    /\ det.className = track.className
    /\ MovedAtLeast(track.boundingBox, det.boundingBox,
                    Setting(settings,
                            getClassnameSettings(det.className).movementThresholdSetting))

\* The result of this step lists the track as Active, at det, with moving = true.
ListedMoving(track, det) ==
    \E k \in 1..Len(result'.active) :
        result'.active[k] =
            [className |-> det.className, score |-> det.score,
             boundingBox |-> det.boundingBox, id |-> Some(track.id),
             movement |-> Some(TRUE)]

\* In this step less than the refresh period has passed since the last
\* detectionId, and no Active track other than tracks[j] can disappear.
QuietFor(j) ==
    /\ lastDetectionId # Undefined
    /\ now' - lastDetectionId[1] <= RefreshMs
    /\ \A i \in 1..Len(tracks) :
          (i # j /\ tracks[i].active) => tracks[i].misses + 1 < maxMisses

LostFeasible(det) ==
    {i \in 1..Len(lostTracks) : Feasible(det, lostTracks[i])}

\* The result of this step lists the track id at det's box among entries.
ReportedIn(entries, id, det) ==
    \E k \in 1..Len(entries) :
        /\ entries[k].id = Some(id)
        /\ entries[k].boundingBox = det.boundingBox

OnlyOversize ==
    /\ Returned
    /\ ~ input.basicOnly
    /\ input.frame.detections # <<>>
    /\ \A i \in 1..Len(input.frame.detections) :
          /\ input.frame.detections[i].boundingBox # Undefined
          /\ ~ LargeKeep(input.frame.inputDimensions, input.frame.detections[i])

\* The call created, updated and revived no track: every track it left in
\* this.tracks was missed.
NoTrackTouched ==
    /\ obs.events = <<>>
    /\ \A j \in 1..Len(tracks) : tracks[j].misses >= 1

-----------------------------------------------------------------------------
(* Properties of prefilterDetections *)

\* C15: prefilterDetections applied to a list it returned returns that list
\* again, the same detections in the same order.
PrefilterIdempotent ==
    \A k \in 2..Len(prefilter.returned) :
        prefilter.returned[k] = prefilter.returned[k - 1]

\* A second application, to a list from which the first one dropped a
\* detection and in which it put two others in another order.
PrefilterIdempotentWitness ==
    /\ Len(prefilter.returned) = 2
    /\ Len(prefilter.returned[1]) = 2
    /\ Len(prefilter.detections) = 3
    /\ \E i, j \in 1..3 :
          /\ i < j
          /\ prefilter.returned[1] = <<prefilter.detections[j], prefilter.detections[i]>>

-----------------------------------------------------------------------------
(* Properties of calculateIoU *)

\* box[2] * box[3] of the source: width * height.
BoxArea(box) == box[3] * box[4]

\* The quotient is a number (not NaN, not infinite) in [0, 1].
IoUInUnitInterval(iou) == iou.den > 0 /\ 0 <= iou.num /\ iou.num <= iou.den

\* The quotient is the number 0.
IoUIsZero(iou) == iou.den # 0 /\ iou.num = 0

\* The quotient is the number 1.
IoUIsOne(iou) == iou.den # 0 /\ iou.num = iou.den

\* The same number; NaN is not the same as anything.
IoUSame(i1, i2) == i1.den # 0 /\ i2.den # 0 /\ i1.num * i2.den = i2.num * i1.den

\* C21: for all boxes a and b of bounded integer coordinates and sizes,
\* calculateIoU(a, b) = calculateIoU(b, a), the value lies in [0, 1],
\* calculateIoU(a, a) = 1 when a has positive area, and the value is 0 whenever
\* a or b (or both) has zero area.
IoUContract ==
    iouRun.ious # <<>> =>
        LET a == iouRun.boxes[1]
            b == iouRun.boxes[2]
            ab == iouRun.ious[1]
            ba == iouRun.ious[2]
            aa == iouRun.ious[3]
        IN  /\ IoUSame(ab, ba)
            /\ IoUInUnitInterval(ab)
            /\ BoxArea(a) > 0 => IoUIsOne(aa)
            /\ (BoxArea(a) = 0 \/ BoxArea(b) = 0) => IoUIsZero(ab)

-----------------------------------------------------------------------------
(* Properties of the audio sampler *)

\* The last step was an onRtp call.
RtpHandled == sampler.constructed /\ sampler.event.kind = "onRtp"

\* C22: an RTP packet of at most 12 bytes is skipped: handling it raises no
\* error, adds no sample to the buffer and emits no reading.
ShortPacketSkipped ==
    (RtpHandled /\ sampler.event.rtp.length <= RtpHeaderSize) =>
        /\ ~ sampler.event.threw
        /\ sampler.samples = sampler.event.before
        /\ sampler.event.emitted = Undefined

\* C23: while the sampling window has not elapsed a packet appends exactly one
\* dB sample and emits no reading; the first packet after the window elapsed
\* with a non-empty buffer emits exactly one reading {dBFS, dbStdDev} of the
\* buffered samples, empties the buffer and restarts the window; no reading is
\* emitted from an empty buffer.
SamplingWindow ==
    RtpHandled =>
        /\ ~ sampler.event.canProcess =>
              /\ Len(sampler.samples) = Len(sampler.event.before) + 1
              /\ SubSeq(sampler.samples, 1, Len(sampler.event.before)) =
                     sampler.event.before
              /\ sampler.event.emitted = Undefined
        /\ (sampler.event.canProcess /\ sampler.event.before # <<>>) =>
              /\ sampler.event.emitted = Some(Reading(sampler.event.before))
              /\ sampler.samples = <<>>
              /\ sampler.samplingStart = Some(now)
        /\ sampler.event.before = <<>> => sampler.event.emitted = Undefined

\* The last step was the end of a forwarder.
ForwarderEnded == sampler.constructed /\ sampler.event.kind = "ended"

\* C24: when a forwarder ends (its kill promise resolves or its start promise
\* rejects) the current-forwarder reference is cleared if it denotes that
\* forwarder and is left as it was otherwise: the end of an older forwarder
\* never clears the reference to a newer one.
EndClearsOnlyOwnReference ==
    ForwarderEnded =>
        sampler.audioForwarder =
            IF sampler.event.before = sampler.event.fp THEN 0
            ELSE sampler.event.before

\* An older forwarder ended, by its kill promise, while the reference denoted
\* a newer one, and the reference still denotes it.
EndClearsOnlyOwnReferenceWitness ==
    /\ ForwarderEnded
    /\ sampler.event.before > sampler.event.fp
    /\ sampler.forwarders[sampler.event.fp].state = "exited"
    /\ sampler.audioForwarder = sampler.event.before

\* The forwarders whose process is alive.
RunningForwarders ==
    {fp \in DOMAIN sampler.forwarders : sampler.forwarders[fp].state = "running"}

\* C25: the running forwarder is stopped and its termination awaited before a
\* new one is started, so at most one forwarder of a sampler is running at any
\* time.
AtMostOneForwarderRunning ==
    sampler.constructed =>
        /\ Cardinality(RunningForwarders) <= 1
        /\ sampler.event.kind = "started" =>
              RunningForwarders \subseteq {sampler.event.fp}

\* C26: after release the sampler holds no forwarder, its buffer is empty and
\* its window unset, and this stays so: no timer, pending start-up or late
\* packet callback starts a forwarder or buffers a sample.
ReleasedStaysStopped ==
    (sampler.constructed /\ sampler.killed) =>
        /\ sampler.audioForwarder = 0
        /\ sampler.samples = <<>>
        /\ sampler.samplingStart = Undefined
        /\ sampler.event.kind # "started"

-----------------------------------------------------------------------------
(* Properties of the plugin *)

\* C27: with no upstream object detector configured, generateObjectDetections
\* fails with an error before any ObjectTracker is constructed, and no
\* detection result is ever yielded.
NoDetectorFailsFirst ==
    (plugin.constructed /\ plugin.objectDetectionDevice = Undefined
        /\ plugin.call # "none") =>
        /\ plugin.call = "threw"
        /\ plugin.error = Some("Object detector unavailable")
        /\ plugin.trackers = 0
        /\ plugin.objectTracker = Undefined
        /\ plugin.yielded = <<>>

\* generateObjectDetections was called without a detector and has failed.
NoDetectorFailsFirstWitness ==
    /\ plugin.constructed
    /\ plugin.objectDetectionDevice = Undefined
    /\ plugin.call = "threw"

-----------------------------------------------------------------------------
(* Properties of the analysis loop *)

\* C28: the cancellation signal is examined only between frames: a frame
\* whose processing has begun is processed to the end and reported even if the
\* signal is resolved meanwhile (the only frame begun and not reported is the
\* one whose snapshot is being created, or could not be created), and no frame
\* that arrives after the signal was resolved is processed or reported.
SignalExaminedBetweenFrames ==
    analysis.constructed =>
        \A k \in DOMAIN analysis.frames :
            LET frame == analysis.frames[k]
            IN  /\ frame.afterSignal => (~ frame.begun /\ ~ frame.reported)
                /\ (frame.begun /\ ~ frame.reported) =>
                      /\ k = Len(analysis.frames)
                      /\ analysis.phase \in {"jpeg", "threw"}
                /\ frame.reported => frame.begun

\* The signal was resolved while the snapshot of a frame was being created,
\* that frame was reported, and the frame that arrived next was left alone.
SignalExaminedBetweenFramesWitness ==
    /\ analysis.constructed
    /\ ~ analysis.hasMotionType
    /\ \E k \in DOMAIN analysis.frames :
          /\ analysis.frames[k].detectionId
          /\ analysis.frames[k].signalDuring
          /\ analysis.frames[k].reported
          /\ k + 1 \in DOMAIN analysis.frames
          /\ analysis.frames[k + 1].afterSignal
          /\ ~ analysis.frames[k + 1].begun

-----------------------------------------------------------------------------
(* Properties of the track lifecycle *)

\* This step is a tracking-mode update that returned.
TrackingUpdate == calls' = calls + 1 /\ obs'.kind = "tracking"

\* The ids the association of this step put in updatedTrackIds.
UpdatedNow == {obs'.events[k].id : k \in 1..Len(obs'.events)}

\* The track was in this.tracks before this step and was not associated.
MissedNow(track) == MapHas(tracks, track.id) /\ track.id \notin UpdatedNow

\* C29: in a tracking-mode update every track of this.tracks that is not
\* associated gets misses + 1 and moving = false; when misses reaches maxMisses
\* the track leaves this.tracks and enters lostTracks, and its lostFrames is 0
\* when the update returns.
MissedTrackAgesOrIsLost ==
    [][TrackingUpdate =>
          \A i \in 1..Len(tracks) :
              MissedNow(tracks[i]) =>
                  LET id == tracks[i].id
                  IN  IF tracks[i].misses + 1 >= maxMisses
                      THEN /\ ~ MapHas(tracks', id)
                           /\ MapHas(lostTracks', id)
                           /\ MapGet(lostTracks', id).misses = tracks[i].misses + 1
                           /\ ~ MapGet(lostTracks', id).moving
                           /\ MapGet(lostTracks', id).lostFrames = 0
                      ELSE /\ MapHas(tracks', id)
                           /\ ~ MapHas(lostTracks', id)
                           /\ MapGet(tracks', id).misses = tracks[i].misses + 1
                           /\ ~ MapGet(tracks', id).moving]_vars

\* The ids that were allocated and are in neither map: the evicted tracks.
Evicted == Range(createdIds) \ (MapKeys(tracks) \cup MapKeys(lostTracks))

\* The ids a result lists.
ListedIds(res) ==
    {id \in Range(createdIds) :
        \E k \in 1..Len(res.active \o res.pending) :
            (res.active \o res.pending)[k].id = Some(id)}

\* A lost track that this step does not re-acquire is one frame older after
\* it, or gone when that makes it older than maxLostFrames.
LostTrackAges ==
    TrackingUpdate =>
        \A i \in 1..Len(lostTracks) :
            lostTracks[i].id \notin UpdatedNow =>
                LET id == lostTracks[i].id
                IN  IF lostTracks[i].lostFrames + 1 > maxLostFrames
                    THEN ~ MapHas(lostTracks', id) /\ ~ MapHas(tracks', id)
                    ELSE /\ MapHas(lostTracks', id)
                         /\ MapGet(lostTracks', id).lostFrames =
                                lostTracks[i].lostFrames + 1

\* An evicted id is in neither map and in no result from then on.
EvictedStaysOut ==
    \A id \in Evicted :
        /\ ~ MapHas(tracks', id)
        /\ ~ MapHas(lostTracks', id)
        /\ id \notin ListedIds(result')

\* A detection that matches the last box of an evicted track, and that no
\* track and no lost track claims, makes a track under an id that was never
\* allocated.
EvictedSeenAgainGetsFreshId ==
    \A det \in Range(input'.frame.detections) :
        (/\ TrackingCallOn(det)
         /\ \E e \in evictedTracks : Feasible(det, e)
         /\ FeasiblePairs(<<det>>) = {}
         /\ LostFeasible(det) = {}) =>
            /\ ToString36(nextTrackId) \notin Range(createdIds)
            /\ MapHas(tracks', ToString36(nextTrackId))
            /\ MapGet(tracks', ToString36(nextTrackId)).boundingBox = det.boundingBox
            /\ nextTrackId' = nextTrackId + 1

\* C30: a lost track that is not re-acquired has lostFrames increased by one
\* per tracking update and is removed from lostTracks once lostFrames exceeds
\* maxLostFrames, so that it is eventually evicted (while maxLostFrames updates
\* are still to come); an evicted track is never re-acquired: its id never
\* again appears in tracks, lostTracks or a result, and a later detection that
\* matches its last box gets a fresh id.
LostTrackEvictedForGood ==
    /\ [][LostTrackAges /\ EvictedStaysOut /\ EvictedSeenAgainGetsFreshId]_vars
    /\ \A n \in 1..EvictionCalls :
          (MapHas(lostTracks, ToString36(n)) /\ calls + maxLostFrames <= EvictionCalls)
              ~> (ToString36(n) \in Evicted \/ MapHas(tracks, ToString36(n)))

-----------------------------------------------------------------------------
(* Properties of the association *)

\* The ids of the lost tracks that this step revives.
RevivedNow ==
    {obs'.events[k].id :
        k \in {j \in 1..Len(obs'.events) : obs'.events[j].kind = "revive"}}

\* The track id left lostTracks for tracks in this step.
MovedBack(id) ==
    /\ MapHas(lostTracks, id)
    /\ MapHas(tracks', id)
    /\ ~ MapHas(lostTracks', id)

Prefiltered ==
    prefilterDetections(input'.frame.detections, input'.frame.inputDimensions,
                        settings)

IouOf(det, track) == calculateIoU(det.boundingBox, track.boundingBox)

\* The entries of a map that may take det: same class, IoU strictly above the
\* class threshold, not assigned in this frame.
Qualifying(m, det, assigned) ==
    {j \in 1..Len(m) : m[j].id \notin assigned /\ Feasible(det, m[j])}

\* The candidate of the highest IoU, the earliest inserted among equals.
BestOf(m, det, cands) ==
    CHOOSE j \in cands :
        \A k \in cands \ {j} :
            \/ IouGt(IouOf(det, m[j]), IouOf(det, m[k]))
            \/ (~ IouGt(IouOf(det, m[k]), IouOf(det, m[j])) /\ j < k)

\* The associations the rule makes of the detections from the i-th on, on the
\* maps as they were before the frame: the best qualifying unassigned track,
\* else the best qualifying lost track, else a new track.
RECURSIVE GreedyRule(_, _, _, _, _)
GreedyRule(detections, i, assigned, next, events) ==
    IF i > Len(detections) THEN events
    ELSE LET det == detections[i]
             cands == Qualifying(tracks, det, assigned)
             lostCands == Qualifying(lostTracks, det, assigned)
         IN  IF cands # {}
             THEN LET id == tracks[BestOf(tracks, det, cands)].id
                  IN  GreedyRule(detections, i + 1, assigned \cup {id}, next,
                                 Append(events, Event(i, id, "update")))
             ELSE IF lostCands # {}
             THEN LET id == lostTracks[BestOf(lostTracks, det, lostCands)].id
                  IN  GreedyRule(detections, i + 1, assigned \cup {id}, next,
                                 Append(events, Event(i, id, "revive")))
             ELSE GreedyRule(detections, i + 1, assigned \cup {ToString36(next)},
                             next + 1,
                             Append(events, Event(i, ToString36(next), "create")))

\* C32: in greedy mode the detections of a frame, in order, are each
\* associated with the qualifying track of the highest IoU among those not yet
\* assigned in the frame (the earlier inserted among equals), else with the
\* best qualifying lost track, and make a new track only when neither exists.
GreedyTakesBestUnassigned ==
    [][(TrackingUpdate /\ ~ useMatrix) =>
          obs'.events = GreedyRule(Prefiltered, 1, {}, nextTrackId, <<>>)]_vars

\* Tracks "1" at BoxA and "2" at BoxEdge, then a frame with objects at BoxLeft
\* and BoxRight: BoxRight overlaps "1" most, "1" went to BoxLeft, and BoxRight
\* is associated with "2"; both tracks moved.
GreedyTakesBestUnassignedWitness ==
    /\ ~ useMatrix
    /\ Returned
    /\ calls = 2
    /\ input.frame.detections = <<Person(BoxLeft), Person(BoxRight)>>
    /\ obs.events = <<Event(1, ToString36(1), "update"),
                      Event(2, ToString36(2), "update")>>
    /\ MapGet(tracks, ToString36(1)).moving
    /\ MapGet(tracks, ToString36(2)).moving

\* The track id as it was before this step, in whichever map held it.
TrackBefore(id) ==
    IF MapHas(tracks, id) THEN MapGet(tracks, id) ELSE MapGet(lostTracks, id)

\* The associations of this step with a track that existed before it.
AssociatedNow ==
    {k \in 1..Len(obs'.events) : obs'.events[k].kind \in {"update", "revive"}}

\* C33: under either strategy a detection is associated only with a track of
\* its own className, so that no track changes its className.
AssociationKeepsClass ==
    [][TrackingUpdate =>
          /\ \A k \in AssociatedNow :
                Prefiltered[obs'.events[k].det].className =
                    TrackBefore(obs'.events[k].id).className
          /\ \A i \in 1..Len(tracks') :
                (MapHas(tracks, tracks'[i].id) \/ MapHas(lostTracks, tracks'[i].id)) =>
                    tracks'[i].className = TrackBefore(tracks'[i].id).className]_vars

\* The events of this step that are about the i-th pre-filtered detection.
EventsOf(i) == {k \in 1..Len(obs'.events) : obs'.events[k].det = i}

\* C34: under either strategy every pre-filtered detection is associated with
\* an existing or revived track or creates exactly one new track, which is in
\* tracks under a new id at the detection's box when the update returns.
UnassociatedCreatesOneTrack ==
    [][TrackingUpdate =>
          /\ \A i \in 1..Len(Prefiltered) :
                /\ Cardinality(EventsOf(i)) = 1
                /\ \A k \in EventsOf(i) :
                      obs'.events[k].kind = "create" =>
                          /\ ~ MapHas(tracks, obs'.events[k].id)
                          /\ ~ MapHas(lostTracks, obs'.events[k].id)
                          /\ obs'.events[k].id \notin Range(createdIds)
                          /\ MapHas(tracks', obs'.events[k].id)
                          /\ MapGet(tracks', obs'.events[k].id).boundingBox =
                                 Prefiltered[i].boundingBox
          /\ nextTrackId' = nextTrackId +
                 Cardinality({k \in 1..Len(obs'.events) :
                                 obs'.events[k].kind = "create"})]_vars

\* The result lists the track id among entries.
Lists(entries, id) == \E k \in 1..Len(entries) : entries[k].id = Some(id)

\* C35: when minConfirmationFrames of a class is 1 or less, a track created
\* for a detection of that class is Active in the FrameResult of the update
\* that created it, under either strategy.
CreatedActiveWhenInstant ==
    obs.kind = "tracking" =>
        \A k \in 1..Len(obs.events) :
            (/\ obs.events[k].kind = "create"
             /\ MapHas(tracks, obs.events[k].id)
             /\ Setting(settings,
                        getClassnameSettings(MapGet(tracks, obs.events[k].id).className)
                            .minConfirmationFramesSetting)[1] <= 1) =>
                /\ MapGet(tracks, obs.events[k].id).active
                /\ Lists(result.active, obs.events[k].id)
                /\ ~ Lists(result.pending, obs.events[k].id)

\* C36: hits counts the consecutive most recent frames in which the track was
\* associated: a track of this.tracks that is associated in this update has
\* one hit more than before when it was associated in the previous frame too,
\* and one hit when it was missed in the previous frame.
HitsCountConsecutiveFrames ==
    [][TrackingUpdate =>
          \A i \in 1..Len(tracks) :
              tracks[i].id \in UpdatedNow =>
                  /\ MapHas(tracks', tracks[i].id)
                  /\ MapGet(tracks', tracks[i].id).hits =
                         IF tracks[i].misses > 0 THEN 1 ELSE tracks[i].hits + 1]_vars

-----------------------------------------------------------------------------
(* Properties of the pre-filter and of the per-class parameters *)

\* The value of a per-class parameter: the one settings hold, else the default.
ValueOr(o, default) == IF o = <<>> THEN default ELSE o[1]

MinScoreOf(s, className) ==
    ValueOr(Setting(s, getClassnameSettings(className).minScoreSetting),
            DefaultMinScore)

IouThresholdOf(s, className) ==
    ValueOr(Setting(s, getClassnameSettings(className).iouThresholdSetting),
            DefaultIouThreshold)

\* IoU of the two detections' boxes strictly above the class threshold.
Overlap(s, a, b) ==
    LET iou == calculateIoU(a.boundingBox, b.boundingBox)
    IN  a.className = b.className
        /\ iou.num * 100 > IouThresholdOf(s, a.className) * iou.den

\* Step 1: no box of at least 0.95 of the image.
RuleOversize(detections, inputDimensions) ==
    SelectSeq(detections,
              LAMBDA d : d.boundingBox[3] * d.boundingBox[4] * 100 <
                             LargeThreshold * inputDimensions[1] * inputDimensions[2])

\* Step 2: enabled classes only, score at least the class minScore.
RuleClassScore(detections, s) ==
    SelectSeq(detections,
              LAMBDA d : d.className \in s.enabledClasses
                         /\ d.score >= MinScoreOf(s, d.className))

\* Descending score, detections of equal score in their input order: the
\* first detection of the highest score, then the rest likewise.
RECURSIVE RuleSort(_)
RuleSort(detections) ==
    IF detections = <<>> THEN <<>>
    ELSE LET i == CHOOSE k \in 1..Len(detections) :
                      /\ \A j \in 1..Len(detections) :
                            detections[j].score <= detections[k].score
                      /\ \A j \in 1..(k - 1) :
                            detections[j].score < detections[k].score
         IN  <<detections[i]>> \o
             RuleSort(SubSeq(detections, 1, i - 1) \o
                      SubSeq(detections, i + 1, Len(detections)))

\* Step 3: a detection is kept unless a kept detection before it overlaps it.
RECURSIVE RuleNms(_, _, _, _)
RuleNms(s, sorted, k, kept) ==
    IF k > Len(sorted) THEN kept
    ELSE RuleNms(s, sorted, k + 1,
                 IF \E j \in 1..Len(kept) : Overlap(s, kept[j], sorted[k])
                 THEN kept ELSE Append(kept, sorted[k]))

RulePipeline(detections, inputDimensions, s) ==
    RuleNms(s, RuleSort(RuleClassScore(RuleOversize(detections, inputDimensions), s)),
            1, <<>>)

\* C37: prefilterDetections returns what the three steps return: oversize
\* boxes removed, then disabled classes and scores below the class minScore,
\* then class-aware NMS in descending score order; the survivors of one class
\* pairwise have IoU at most the class threshold, and a detection is missing
\* from the result only if the first two steps remove it or it overlaps a
\* survivor of its class (S5: of a person at BoxA with score 0.9 and its
\* duplicate at BoxNear with score 0.8 the first survives alone).
PrefilterIsThePipeline ==
    Len(prefilter.returned) >= 1 =>
        LET out == prefilter.returned[1]
            passed == RuleClassScore(RuleOversize(prefilter.detections,
                                                  prefilter.inputDimensions),
                                     settings)
        IN  /\ out = RulePipeline(prefilter.detections, prefilter.inputDimensions,
                                  settings)
            /\ \A i, j \in 1..Len(out) : i # j => ~ Overlap(settings, out[i], out[j])
            /\ \A k \in 1..Len(passed) :
                  \/ \E i \in 1..Len(out) : out[i] = passed[k]
                  \/ \E i \in 1..Len(out) : Overlap(settings, out[i], passed[k])
            /\ prefilter.detections = <<Person(BoxA), Detection("person", 80, BoxNear)>>
                  => out = <<Person(BoxA)>>

MinConfirmationsOf(s, className) ==
    ValueOr(Setting(s, getClassnameSettings(className).minConfirmationFramesSetting),
            DefaultMinConfirmations)

MovementThresholdOf(s, className) ==
    ValueOr(Setting(s, getClassnameSettings(className).movementThresholdSetting),
            DefaultMovementThreshold)

\* This step is a tracking-mode update on a frame whose only detection is det.
UpdateOn(det) == TrackingUpdate /\ input'.frame.detections = <<det>>

\* C38: where settings hold no value for a per-class parameter the default
\* applies: a detection below minScore 0.7 is dropped; a detection that
\* overlaps a track of its class with IoU above 0.5 is associated with a
\* track; a new track is Pending until its third associated frame; an
\* associated track is moving exactly when its centroid moved by 10 or more.
DefaultsApply ==
    [][\A det \in Range(input'.frame.detections) :
          UpdateOn(det) =>
              /\ det.score < MinScoreOf(settings, det.className) => obs'.events = <<>>
              /\ (/\ det.score >= MinScoreOf(settings, det.className)
                  /\ \E i \in 1..Len(tracks) : Overlap(settings, det, tracks[i])) =>
                     \E i \in 1..Len(tracks) :
                        /\ Overlap(settings, det, tracks[i])
                        /\ obs'.events = <<Event(1, tracks[i].id, "update")>>
              /\ \A k \in 1..Len(obs'.events) :
                    LET id == obs'.events[k].id
                    IN  /\ obs'.events[k].kind = "create" =>
                              (MapGet(tracks', id).active <=>
                                   MinConfirmationsOf(settings, det.className) <= 1)
                        /\ obs'.events[k].kind = "update" =>
                              /\ MapGet(tracks', id).active <=>
                                     (\/ MapGet(tracks, id).active
                                      \/ MapGet(tracks, id).hits + 1 >=
                                             MinConfirmationsOf(settings, det.className))
                              /\ MapGet(tracks', id).moving <=>
                                     MovedAtLeast(
                                         MapGet(tracks, id).boundingBox, det.boundingBox,
                                         Some(MovementThresholdOf(settings,
                                                                  det.className)))]_vars

-----------------------------------------------------------------------------
(* Properties of the sampler over an unbounded time *)

\* The last onRtp call emitted a reading.
ReadingEmitted ==
    /\ sampler.constructed
    /\ sampler.event.kind = "onRtp"
    /\ sampler.event.emitted # Undefined

\* The window elapsed over an empty buffer, and the packet that arrived then
\* was neither sampled nor started a window.
SamplerIdle ==
    /\ sampler.constructed
    /\ sampler.event.kind = "onRtp"
    /\ sampler.event.canProcess
    /\ sampler.event.emitted = Undefined
    /\ sampler.samples = <<>>
    /\ ~ Falsy(sampler.samplingStart)
    /\ now - sampler.samplingStart[1] > UpdateSeconds * 1000

-----------------------------------------------------------------------------
(* Properties of the analysis loops of one camera *)

\* The runPipelineAnalysis calls that were made and have not returned.
InProgress == {i \in DOMAIN mixin.loops : mixin.loops[i].phase = "running"}

\* C40: at most one runPipelineAnalysis call of the mixin is in progress at
\* any time, whatever the order of motion events, setting changes, hung-timer
\* cancellations and release, and no analysis loop is started after release.
OnePipelineAtATime ==
    mixin.constructed =>
        /\ Cardinality(InProgress) <= 1
        /\ \A i \in DOMAIN mixin.loops : ~ mixin.loops[i].released

\* No analysis loop is started after release.
NoPipelineAfterRelease ==
    mixin.constructed => \A i \in DOMAIN mixin.loops : ~ mixin.loops[i].released

====
